---- MODULE Spec2Model ----
(***************************************************************************)
(* Event aggregation and delivery pipeline of                              *)
(* core/autocomplete/util/ManualTypingStatisticsService.ts:                *)
(* ManualTypingStatisticsService (svc = "typing") and                      *)
(* AutocompleteStatisticsService (svc = "autocomplete").  The two services *)
(* are independent singletons, so one behaviour of the model follows one   *)
(* of them; Init offers both.                                              *)
(***************************************************************************)
EXTENDS Integers, Sequences, FiniteSets, TLC

\* ------------------------------------------------------------------ bounds
\* Number of events the producers create in one behaviour.
MaxEvents == 3
\* Number of deliveries that may be suspended (in flight) at the same time.
MaxInFlight == 2
\* Number of suggestions displayed between two resets.
MaxSuggestions == 2
\* ... and in the specification of the queue capacity, where the queue of the
\* autocomplete service has to be offered more than MAX_QUEUE_SIZE events
MaxCapacitySuggestions == 3
\* Number of times the clock is advanced in the behaviours of SpecSuggest.
MaxTicks == 1
\* Capacity of the primary queue.  The source sets 1000; the model keeps the
\* comparison of the code and scales the number so that the queue can fill.
MAX_QUEUE_SIZE == 2
\* Number of events created in the behaviours of SpecConfig.
MaxConfigEvents == 2
\* Date.now() when the service is constructed (ms).
InitialTime == 100000000
\* Time that passes in the behaviours of SpecAge (ms): a day and five minutes.
MaxElapsed == 86700000
\* Number of identifiers crypto.randomUUID() hands out in one behaviour.
MaxUuids == 7

\* ------------------------------------------------------- program constants
MAX_FAILED_EVENTS_MULTIPLIER == 2

DEFAULT_CONFIG ==
  [ enabled        |-> TRUE,
    reportEnabled  |-> TRUE,
    reportInterval |-> 5 * 60 * 1000,
    batchSize      |-> 10,
    retryAttempts  |-> 3,
    retryDelay     |-> 1000,
    maxRetryDelay  |-> 30000,
    requestTimeout |-> 10000 ]

DEFAULT_REPORT_CONFIG ==
  [ enabled        |-> TRUE,
    batchSize      |-> 10,
    reportInterval |-> 5 * 60 * 1000,
    retryAttempts  |-> 3,
    retryDelay     |-> 1000 ]

RETRYABLE_ERRORS ==
  {"AbortError", "timeout", "network", "ECONNRESET", "ENOTFOUND", "ECONNREFUSED"}

\* toLowerCase() of the entries of RETRYABLE_ERRORS
LowerCase(s) ==
  CASE s = "AbortError"   -> "aborterror"
    [] s = "ECONNRESET"   -> "econnreset"
    [] s = "ENOTFOUND"    -> "enotfound"
    [] s = "ECONNREFUSED" -> "econnrefused"
    [] OTHER              -> s

\* ------------------------------------------------------------------ inputs
\* Arguments of trackManualTyping; text is the sequence of its characters.
TypingInputs ==
  { [filepath |-> "a.ts", charactersAdded |-> 1, linesAdded |-> 0, text |-> <<"x">>],
    [filepath |-> "a.ts", charactersAdded |-> 2, linesAdded |-> 1, text |-> <<>>],
    [filepath |-> "",     charactersAdded |-> 1, linesAdded |-> 0, text |-> <<"x">>],
    [filepath |-> "a.ts", charactersAdded |-> -1, linesAdded |-> 0, text |-> <<>>],
    [filepath |-> "a.ts", charactersAdded |-> 10001, linesAdded |-> 0, text |-> <<>>],
    [filepath |-> "a.ts", charactersAdded |-> 1, linesAdded |-> -1, text |-> <<>>],
    [filepath |-> "a.ts", charactersAdded |-> 1, linesAdded |-> 1001, text |-> <<>>],
    [filepath |-> "a.ts", charactersAdded |-> 2, linesAdded |-> 0, text |-> <<"x">>] }

CompletionIds == {"c1", "c2"}

\* Partial configurations passed to configure / configureReporting: the ones
\* the delivery pipeline depends on, and (below) all the model draws from.
PipelineTypingPartials ==
  { [batchSize |-> 1], [batchSize |-> 2], [retryAttempts |-> 0] }

PipelineReportPartials ==
  { [batchSize |-> 1], [batchSize |-> 2], [retryAttempts |-> 0] }

TypingPartials ==
  { [batchSize |-> 1], [batchSize |-> 2],
    [reportEnabled |-> FALSE], [reportEnabled |-> TRUE],
    [reportInterval |-> 60000],
    [retryAttempts |-> 1], [retryAttempts |-> 0] }

ReportPartials ==
  { [batchSize |-> 1], [batchSize |-> 2],
    [enabled |-> FALSE], [enabled |-> TRUE],
    [reportInterval |-> 60000],
    [retryAttempts |-> 1], [retryAttempts |-> 0] }

\* Partial configurations that change the retry policy.
RetryTypingPartials ==
  { [retryAttempts |-> 4], [retryAttempts |-> 1], [retryDelay |-> 20000] }

RetryReportPartials ==
  { [retryAttempts |-> 4], [retryAttempts |-> 1] }

\* Partial configurations in the behaviours with fair scheduling.
LiveTypingPartials ==
  { [batchSize |-> 1], [retryAttempts |-> 0], [retryAttempts |-> 2] }

LiveReportPartials ==
  { [batchSize |-> 1], [retryAttempts |-> 0], [retryAttempts |-> 2] }

\* Partial configurations under which the age cleanup of the failed queue
\* meets flushes that start in the turn of the producer, or fail in it.
AgeTypingPartials ==
  { [batchSize |-> 2], [retryAttempts |-> 0] }

\* Time between two turns (ms): CLEANUP_INTERVAL, and the age at which a
\* failed event is cleaned up.  Two turns may also run in the same millisecond.
ElapseSteps == { 5 * 60 * 1000, 24 * 60 * 60 * 1000 }

\* The times after construction at which the turns of SpecAge run (ms).
ElapseOffsets ==
  { 0, 5 * 60 * 1000, 24 * 60 * 60 * 1000, 24 * 60 * 60 * 1000 + 5 * 60 * 1000 }

\* The keystroke typed in the behaviours of SpecAge.
AgeTypingInput ==
  [filepath |-> "a.ts", charactersAdded |-> 1, linesAdded |-> 0, text |-> <<"x">>]

\* Partial configurations under which the cleanup of aged suggestions runs.
CleanupReportPartials ==
  { [batchSize |-> 1], [enabled |-> FALSE] }

\* Errors uploadLog can throw: name, and the RETRYABLE_ERRORS tokens (lower
\* case) that message.toLowerCase() contains.
\*   TimeoutError: AbortSignal.timeout fired ("... aborted due to timeout")
\*   Error:        `HTTP ${status}: ${statusText}` of a non-2xx response
TransportErrors ==
  { [name |-> "TimeoutError", contains |-> {"timeout"}],
    [name |-> "Error",        contains |-> {}] }

\* lastError = null
NoError == [name |-> "null", contains |-> {}]

\* ------------------------------------------------------------------- state
VARIABLES
  svc,                \* which service this behaviour follows
  statistics,         \* this.statistics
  pendingSuggestions, \* this.pendingSuggestions (autocomplete): id -> entry
  config,             \* this.config / this.reportConfig
  reportQueue,        \* this.reportQueue
  failedEvents,       \* this.failedEvents
  reportTimer,        \* this.reportTimer: a timer handle, or 0 for null
  timers,             \* the interval timers armed in the event loop
  inflight,           \* suspended reportEvents / flushReportQueue calls
  lastCleanupTime,    \* this.lastCleanupTime (typing)
  now,                \* Date.now()
  nextEvent,          \* identity of the next event object created
  lastOp,             \* history: what the last step did and logged
  hist,               \* history: which events failed before which were queued
  device              \* the device-id.txt files on disk, and the last identifier

vars ==
  << svc, statistics, pendingSuggestions, config, reportQueue, failedEvents,
     reportTimer, timers, inflight, lastCleanupTime, now, nextEvent, lastOp,
     hist, device >>

\* history record of a step: the operation, and what became of the flush or
\* delivery it ran:
\*   "none"     it called no flush
\*   "empty"    its flush found both queues empty
\*   "started"  its flush drained a batch and suspended in sendReport
\*   "retry"    the delivery suspended again (next attempt or backoff)
\*   "success"  the delivery succeeded
\*   "failure"  sendReport threw and the catch block ran
\* and what it did to the queues, as its console output tells:
\*   enq        it appended an event to the primary queue
\*   evicted    "Report queue full, discarded oldest event"
\*   discarded  n of "Discarded ${n} old failed events ..." (0: not logged)
OpLog(name, result, enq, evicted, discarded) ==
  [ op |-> name, result |-> result, enq |-> enq, evicted |-> evicted,
    discarded |-> discarded ]

Op(name, result) == OpLog(name, result, FALSE, FALSE, 0)

\* ----------------------------------------------------------- small helpers
Min(a, b) == IF a <= b THEN a ELSE b

RECURSIVE Pow2(_)
Pow2(n) == IF n <= 0 THEN 1 ELSE 2 * Pow2(n - 1)

Range(s) == { s[i] : i \in 1..Len(s) }

\* {...a, ...b}
Merge(a, b) ==
  [ k \in DOMAIN a \cup DOMAIN b |-> IF k \in DOMAIN b THEN b[k] ELSE a[k] ]

\* Array.prototype.splice(0, n): the array without its first n elements
SpliceFront(s, n) ==
  IF n <= 0 THEN s
  ELSE IF n >= Len(s) THEN <<>>
  ELSE SubSeq(s, n + 1, Len(s))

\* the sequence without its element at position i
RemoveAt(s, i) == SubSeq(s, 1, i - 1) \o SubSeq(s, i + 1, Len(s))

\* setInterval returns a handle that names none of the armed timers `ts`
FreshTimer(ts) == CHOOSE h \in 1..(Cardinality(ts) + 1) :
                    /\ \A t \in ts : t.id # h
                    /\ \A g \in 1..(h - 1) : \E t \in ts : t.id = g

\* ------------------------------------------------- delivery (both services)
\* A suspended flush: the drained batch, the statistics spread into the
\* payload, the loop variables of sendReport and where it is suspended:
\*   "upload"   sendReport awaits uploadLog (session lookup, then fetch)
\*   "backoff"  sendReport awaits the setTimeout of `delay` ms
Delivery(batch, payload) ==
  [ batch     |-> batch,
    payload   |-> payload,
    attempt   |-> 1,
    phase     |-> "upload",
    calls     |-> 0,           \* transport calls that have returned or thrown
    delay     |-> 0,
    lastError |-> NoError ]

\* const allEventsToReport = [...this.failedEvents, ...this.reportQueue]
allEventsToReport_primaryFirst(fe, rq) == rq \o fe
allEventsToReport(fe, rq) == fe \o rq

\* the catch block of reportEvents / flushReportQueue: push the batch, then
\* splice the oldest entries off while longer than batchSize * multiplier
requeueFailed_keepOldest(fe, batch, batchSize, mult) ==
  LET all == fe \o batch
      maxFailedEvents == batchSize * mult
  IN  IF Len(all) > maxFailedEvents
      THEN SubSeq(all, 1, IF maxFailedEvents < 0 THEN 0 ELSE maxFailedEvents)
      ELSE all
requeueFailed_noTrim(fe, batch, batchSize, mult) == fe \o batch
requeueFailed_dropBatch(fe, batch, batchSize, mult) == fe
requeueFailed_reversed(fe, batch, batchSize, mult) ==
  LET all == fe \o [ i \in 1..Len(batch) |-> batch[Len(batch) + 1 - i] ]
      maxFailedEvents == batchSize * mult
  IN  IF Len(all) > maxFailedEvents
      THEN SpliceFront(all, Len(all) - maxFailedEvents)
      ELSE all
requeueFailed(fe, batch, batchSize, mult) ==
  LET all == fe \o batch
      maxFailedEvents == batchSize * mult
  IN  IF Len(all) > maxFailedEvents
      THEN SpliceFront(all, Len(all) - maxFailedEvents)
      ELSE all

\* What one call of reportEvents / flushReportQueue does before it first
\* suspends: the queues afterwards, the delivery it started and the batch
\* whose sendReport threw without suspending (retryAttempts < 1: the loop
\* body never runs and `throw lastError` rejects at once).
FlushResult(rq, fe, started, thrown) ==
  [ reportQueue |-> rq, failedEvents |-> fe, started |-> started, thrown |-> thrown ]

NoFlush(rq, fe) == FlushResult(rq, fe, <<>>, <<>>)

\* ------------------------------------------- ManualTypingStatisticsService
InitialTypingStatistics ==
  [ totalCharactersTyped |-> 0, totalLinesTyped |-> 0,
    totalKeystrokes |-> 0, lastTypingTime |-> 0 ]

validateInput_charactersOnly(inp) ==
  /\ inp.filepath # ""
  /\ ~(inp.charactersAdded < 0)
  /\ ~(inp.charactersAdded > 10000)
  /\ ~(Len(inp.text) > 0 /\ Len(inp.text) # inp.charactersAdded)
validateInput(inp) ==
  /\ inp.filepath # ""
  /\ ~(inp.charactersAdded < 0 \/ inp.linesAdded < 0)
  /\ ~(inp.charactersAdded > 10000 \/ inp.linesAdded > 1000)
  /\ ~(Len(inp.text) > 0 /\ Len(inp.text) # inp.charactersAdded)

updateStatisticsBatch_keystrokesByCharacter(st, charactersAdded, linesAdded, timestamp) ==
  [ totalCharactersTyped |-> st.totalCharactersTyped + charactersAdded,
    totalLinesTyped      |-> st.totalLinesTyped + linesAdded,
    totalKeystrokes      |-> st.totalKeystrokes + charactersAdded,
    lastTypingTime       |-> timestamp ]
updateStatisticsBatch(st, charactersAdded, linesAdded, timestamp) ==
  [ totalCharactersTyped |-> st.totalCharactersTyped + charactersAdded,
    totalLinesTyped      |-> st.totalLinesTyped + linesAdded,
    totalKeystrokes      |-> st.totalKeystrokes + 1,
    lastTypingTime       |-> timestamp ]

resetStatisticsAfterReport_all(st) == InitialTypingStatistics
resetStatisticsAfterReport(st) ==
  [ st EXCEPT !.totalCharactersTyped = 0, !.totalLinesTyped = 0,
              !.totalKeystrokes = 0 ]

\* reportEvents up to its first suspension
reportEvents_alwaysSends(fe, rq, st, cfg) ==
  LET all == allEventsToReport(fe, rq)
  IN  IF Len(all) = 0 THEN NoFlush(rq, fe)
      ELSE FlushResult(<<>>, <<>>, <<Delivery(all, st)>>, <<>>)
reportEvents_keepPrimary(fe, rq, st, cfg) ==
  LET all == allEventsToReport(fe, rq)
  IN  IF Len(all) = 0 THEN NoFlush(rq, fe)
      ELSE IF 1 <= cfg.retryAttempts
      THEN FlushResult(rq, <<>>, <<Delivery(all, st)>>, <<>>)
      ELSE FlushResult(rq, <<>>, <<>>, <<all>>)
reportEvents_dropFailed(fe, rq, st, cfg) ==
  LET all == rq
  IN  IF Len(all) = 0 THEN NoFlush(rq, <<>>)
      ELSE IF 1 <= cfg.retryAttempts
      THEN FlushResult(<<>>, <<>>, <<Delivery(all, st)>>, <<>>)
      ELSE FlushResult(<<>>, <<>>, <<>>, <<all>>)
reportEvents_noEmptyCheck(fe, rq, st, cfg) ==
  LET all == allEventsToReport(fe, rq)
  IN  IF 1 <= cfg.retryAttempts
      THEN FlushResult(<<>>, <<>>, <<Delivery(all, st)>>, <<>>)
      ELSE FlushResult(<<>>, <<>>, <<>>, <<all>>)
reportEvents_keepFailed(fe, rq, st, cfg) ==
  LET all == allEventsToReport(fe, rq)
  IN  IF Len(all) = 0 THEN NoFlush(rq, fe)
      ELSE IF 1 <= cfg.retryAttempts
      THEN FlushResult(<<>>, fe, <<Delivery(all, st)>>, <<>>)
      ELSE FlushResult(<<>>, fe, <<>>, <<all>>)
reportEvents(fe, rq, st, cfg) ==
  LET all == allEventsToReport(fe, rq)
  IN  IF Len(all) = 0 THEN NoFlush(rq, fe)
      ELSE IF 1 <= cfg.retryAttempts
      THEN FlushResult(<<>>, <<>>, <<Delivery(all, st)>>, <<>>)
      ELSE FlushResult(<<>>, <<>>, <<>>, <<all>>)

\* ManualTypingStatisticsService.queueForReporting
typingQueueForReporting_noSizeTrigger(fe, rq, st, cfg, event) ==
  LET q1 == IF Len(rq) >= MAX_QUEUE_SIZE THEN Tail(rq) ELSE rq
  IN  NoFlush(Append(q1, event), fe)
typingQueueForReporting_noCapacity(fe, rq, st, cfg, event) ==
  LET q2 == Append(rq, event)
  IN  IF Len(q2) >= cfg.batchSize
      THEN reportEvents(fe, q2, st, cfg)
      ELSE NoFlush(q2, fe)
typingQueueForReporting(fe, rq, st, cfg, event) ==
  LET q1 == IF Len(rq) >= MAX_QUEUE_SIZE THEN Tail(rq) ELSE rq
      q2 == Append(q1, event)
  IN  IF Len(q2) >= cfg.batchSize
      THEN reportEvents(fe, q2, st, cfg)
      ELSE NoFlush(q2, fe)

\* performPeriodicCleanup: the failed events kept (24 h), when it runs
CLEANUP_INTERVAL == 5 * 60 * 1000
performPeriodicCleanup_keepsDayOld(fe, lct, t) ==
  IF t - lct < CLEANUP_INTERVAL
  THEN [ failedEvents |-> fe, lastCleanupTime |-> lct ]
  ELSE [ failedEvents    |-> SelectSeq(fe, LAMBDA e : t - e.timestamp <= 24 * 60 * 60 * 1000),
         lastCleanupTime |-> t ]
performPeriodicCleanup(fe, lct, t) ==
  IF t - lct < CLEANUP_INTERVAL
  THEN [ failedEvents |-> fe, lastCleanupTime |-> lct ]
  ELSE [ failedEvents    |-> SelectSeq(fe, LAMBDA e : t - e.timestamp < 24 * 60 * 60 * 1000),
         lastCleanupTime |-> t ]

isRetryableError(error) ==
  IF error = NoError THEN FALSE
  ELSE \/ error.name \in RETRYABLE_ERRORS
       \/ \E r \in RETRYABLE_ERRORS : LowerCase(r) \in error.contains

\* sendReport (typing) when uploadLog threw `error` at attempt d.attempt:
\* the delivery as it suspends again, or thrown = TRUE when sendReport throws
typingOnUploadError_retryAll(d, error, cfg) ==
  IF d.attempt < cfg.retryAttempts
  THEN [ thrown |-> FALSE,
         d |-> [ d EXCEPT !.phase = "backoff", !.lastError = error,
                          !.delay = Min(cfg.retryDelay * Pow2(d.attempt - 1),
                                        cfg.maxRetryDelay) ] ]
  ELSE [ thrown |-> TRUE, d |-> [ d EXCEPT !.lastError = error ] ]
typingOnUploadError_extraAttempt(d, error, cfg) ==
  IF ~isRetryableError(error)
  THEN [ thrown |-> TRUE, d |-> [ d EXCEPT !.lastError = error ] ]
  ELSE IF d.attempt < cfg.retryAttempts
  THEN [ thrown |-> FALSE,
         d |-> [ d EXCEPT !.phase = "backoff", !.lastError = error,
                          !.delay = Min(cfg.retryDelay * Pow2(d.attempt - 1),
                                        cfg.maxRetryDelay) ] ]
  ELSE IF d.attempt < cfg.retryAttempts + 1
  THEN [ thrown |-> FALSE,
         d |-> [ d EXCEPT !.attempt = d.attempt + 1, !.lastError = error ] ]
  ELSE [ thrown |-> TRUE, d |-> [ d EXCEPT !.lastError = error ] ]
typingOnUploadError(d, error, cfg) ==
  IF ~isRetryableError(error)
  THEN [ thrown |-> TRUE, d |-> [ d EXCEPT !.lastError = error ] ]
  ELSE IF d.attempt < cfg.retryAttempts
  THEN [ thrown |-> FALSE,
         d |-> [ d EXCEPT !.phase = "backoff", !.lastError = error,
                          !.delay = Min(cfg.retryDelay * Pow2(d.attempt - 1),
                                        cfg.maxRetryDelay) ] ]
  ELSE [ thrown |-> TRUE, d |-> [ d EXCEPT !.lastError = error ] ]

\* the for-loop header of sendReport after the backoff: attempt++, then the
\* test against the retryAttempts configured now
nextAttempt_waitAgain(d, cfg) == [ thrown |-> FALSE, d |-> d ]
nextAttempt(d, cfg) ==
  IF d.attempt + 1 <= cfg.retryAttempts
  THEN [ thrown |-> FALSE,
         d |-> [ d EXCEPT !.attempt = d.attempt + 1, !.phase = "upload",
                          !.delay = 0 ] ]
  ELSE [ thrown |-> TRUE, d |-> [ d EXCEPT !.attempt = d.attempt + 1 ] ]

\* the catch block of reportEvents
typingCatch(fe, batch, cfg) ==
  requeueFailed(fe, batch, cfg.batchSize, MAX_FAILED_EVENTS_MULTIPLIER)

\* clearInterval(this.reportTimer)
clearInterval_noop(ts, h) == ts
clearInterval(ts, h) == { t \in ts : t.id # h }

\* startPeriodicReporting (typing): the handle stored and the timers armed
typingStartPeriodicReporting(cfg, h, ts) ==
  IF cfg.reportEnabled
  THEN [ reportTimer |-> FreshTimer(ts),
         timers |-> ts \cup { [id |-> FreshTimer(ts), kind |-> "interval",
                              interval |-> cfg.reportInterval] } ]
  ELSE [ reportTimer |-> h, timers |-> ts ]


\* ------------------------------------------- AutocompleteStatisticsService
\* a rate is the quotient num / den of two counters
Rate(num, den) == [ num |-> num, den |-> den ]
ZeroRate == Rate(0, 1)

InitialAutocompleteStatistics ==
  [ tabAccepts |-> 0, escCancels |-> 0, totalSuggestions |-> 0,
    acceptanceRate |-> ZeroRate, cancelRate |-> ZeroRate ]

updateRates(st) ==
  LET totalInteractions == st.tabAccepts + st.escCancels
  IN  IF totalInteractions > 0
      THEN [ st EXCEPT !.acceptanceRate = Rate(st.tabAccepts, totalInteractions),
                       !.cancelRate = Rate(st.escCancels, totalInteractions) ]
      ELSE [ st EXCEPT !.acceptanceRate = ZeroRate, !.cancelRate = ZeroRate ]

\* pendingSuggestions is a Map: its entries in insertion order
PendingIds(p) == { p[i].completionId : i \in 1..Len(p) }
PendingGet(p, id) == CHOOSE e \in Range(p) : e.completionId = id
PendingDelete(p, id) == SelectSeq(p, LAMBDA e : e.completionId # id)
PendingSet(p, id, entry) ==
  IF id \in PendingIds(p)
  THEN [ i \in 1..Len(p) |-> IF p[i].completionId = id THEN entry ELSE p[i] ]
  ELSE Append(p, entry)

\* flushReportQueue up to its first suspension
flushReportQueue_noEmptyCheck(fe, rq, st, cfg) ==
  LET all == allEventsToReport(fe, rq)
  IN  IF 1 <= cfg.retryAttempts
      THEN FlushResult(<<>>, <<>>, <<Delivery(all, st)>>, <<>>)
      ELSE FlushResult(<<>>, <<>>, <<>>, <<all>>)
flushReportQueue(fe, rq, st, cfg) ==
  LET all == allEventsToReport(fe, rq)
  IN  IF Len(all) = 0 THEN NoFlush(rq, fe)
      ELSE IF 1 <= cfg.retryAttempts
      THEN FlushResult(<<>>, <<>>, <<Delivery(all, st)>>, <<>>)
      ELSE FlushResult(<<>>, <<>>, <<>>, <<all>>)

\* AutocompleteStatisticsService.queueForReporting
autocompleteQueueForReporting(fe, rq, st, cfg, event) ==
  IF ~cfg.enabled THEN NoFlush(rq, fe)
  ELSE LET q == Append(rq, event)
       IN  IF Len(q) >= cfg.batchSize
           THEN flushReportQueue(fe, q, st, cfg)
           ELSE NoFlush(q, fe)

\* sendReport (autocomplete) when uploadLog threw at attempt d.attempt
autocompleteOnUploadError(d, error, cfg) ==
  IF d.attempt < cfg.retryAttempts
  THEN [ thrown |-> FALSE,
         d |-> [ d EXCEPT !.phase = "backoff", !.lastError = error,
                          !.delay = cfg.retryDelay * d.attempt ] ]
  ELSE [ thrown |-> TRUE, d |-> [ d EXCEPT !.lastError = error ] ]

\* the catch block of flushReportQueue
autocompleteCatch(fe, batch, cfg) ==
  requeueFailed(fe, batch, cfg.batchSize, 2)

\* startPeriodicReporting (autocomplete)
autocompleteStartPeriodicReporting(cfg, h, ts) ==
  IF ~cfg.enabled
  THEN [ reportTimer |-> h, timers |-> ts ]
  ELSE [ reportTimer |-> FreshTimer(ts),
         timers |-> ts \cup { [id |-> FreshTimer(ts), kind |-> "interval",
                              interval |-> cfg.reportInterval] } ]

\* --------------------------------------------- the service of the behaviour
Flush(fe, rq, st, cfg) ==
  IF svc = "typing" THEN reportEvents(fe, rq, st, cfg)
  ELSE flushReportQueue(fe, rq, st, cfg)

Catch(fe, batch, cfg) ==
  IF svc = "typing" THEN typingCatch(fe, batch, cfg)
  ELSE autocompleteCatch(fe, batch, cfg)

\* the rejections of a turn are handled in the microtasks that follow it
RECURSIVE CatchAll(_, _, _)
CatchAll(fe, thrown, cfg) ==
  IF thrown = <<>> THEN fe
  ELSE CatchAll(Catch(fe, Head(thrown), cfg), Tail(thrown), cfg)

OnUploadError(d, error, cfg) ==
  IF svc = "typing" THEN typingOnUploadError(d, error, cfg)
  ELSE autocompleteOnUploadError(d, error, cfg)

\* the toDiscard that the catch block logs
Discarded(fe, batch, cfg) == Len(fe) + Len(batch) - Len(Catch(fe, batch, cfg))

\* lastOp of a turn whose flush returned q (called = FALSE: no flush ran);
\* fe is the failed queue the catch block of a rejected flush pushed onto
TurnOp(name, called, q, fe, enq, evicted) ==
  OpLog(name,
        IF ~called THEN "none"
        ELSE IF q.thrown # <<>> THEN "failure"
        ELSE IF q.started # <<>> THEN "started"
        ELSE "empty",
        enq, evicted,
        IF called /\ q.thrown # <<>> THEN Discarded(fe, q.thrown[1], config) ELSE 0)

\* ------------------------------------------------------ history of failures
\* hist.failed: the events that were in a batch whose delivery failed;
\* hist.before: the pairs <<x, y>> of events such that x failed before y was
\* queued, or x stood before y in a batch that failed.  It is recorded in the
\* behaviours that start with hist.on.
Ids(batch) == { batch[i].id : i \in 1..Len(batch) }

\* the events of `batch` failed together, in this order
HistFailed(h, batch) ==
  IF ~h.on THEN h
  ELSE [ h EXCEPT
           !.failed = @ \cup Ids(batch),
           !.before = @ \cup
               { p \in Ids(batch) \X Ids(batch) :
                   \E i, j \in 1..Len(batch) :
                     i < j /\ p = <<batch[i].id, batch[j].id>> } ]

\* How the promise of one reportEvents / flushReportQueue call settles once
\* sendReport has returned (threw = FALSE) or thrown (threw = TRUE): the
\* catch block handles the error and ends normally.
reportEventsSettles_rethrow(threw) == IF threw THEN "rejected" ELSE "fulfilled"
reportEventsSettles(threw) == IF threw THEN "fulfilled" ELSE "fulfilled"

\* hist.force: the promise forceReport() returned to its latest caller
\* ("none", "pending", "fulfilled", "rejected"); hist.forceKey: the first
\* event of the batch that call drained; hist.forceFailed: sendReport threw
\* for that batch; hist.unhandled: the promise of a flush nobody awaits (size
\* trigger, timer) was rejected.  Recorded in the behaviours that start with
\* hist.promises.
\* the flush that drained `batch` has ended
HistSettled(h, batch, threw) ==
  IF ~h.promises THEN h
  ELSE IF h.force = "pending" /\ batch[1].id = h.forceKey
  THEN [ h EXCEPT !.force = reportEventsSettles(threw), !.forceFailed = threw ]
  ELSE [ h EXCEPT !.unhandled = @ \/ reportEventsSettles(threw) = "rejected" ]

\* forceReport() awaits the flush whose synchronous part returned q
HistForceCalled(h, name, q) ==
  IF ~h.promises \/ name # "forceReport" THEN h
  ELSE IF q.started # <<>>
  THEN [ h EXCEPT !.force = "pending", !.forceFailed = FALSE,
                  !.forceKey = q.started[1].batch[1].id ]
  ELSE IF q.thrown # <<>>
  THEN [ h EXCEPT !.force = "pending", !.forceFailed = FALSE,
                  !.forceKey = q.thrown[1][1].id ]
  ELSE [ h EXCEPT !.force = "fulfilled", !.forceFailed = FALSE, !.forceKey = 0 ]

\* event `id` was queued after the failures recorded so far
HistQueued(h, id) ==
  IF ~h.on THEN h
  ELSE [ h EXCEPT !.before = @ \cup { <<f, id>> : f \in h.failed } ]

RECURSIVE HistFailedAll(_, _)
HistFailedAll(h, thrown) ==
  IF thrown = <<>> THEN h
  ELSE HistFailedAll(HistSettled(HistFailed(h, Head(thrown)), Head(thrown), TRUE),
                     Tail(thrown))

\* ------------------------------------------------------------------ actions
trackManualTyping(inp) ==
  /\ svc = "typing"
  /\ nextEvent <= MaxEvents
  /\ IF ~validateInput(inp)
     THEN /\ lastOp' = Op("trackManualTyping", "none")
          /\ UNCHANGED << svc, device, statistics, pendingSuggestions, config,
                          reportQueue, failedEvents, reportTimer, timers,
                          inflight, lastCleanupTime, nextEvent, now, hist >>
     ELSE LET st    == updateStatisticsBatch(statistics, inp.charactersAdded,
                                             inp.linesAdded, now)
              event == [ id |-> nextEvent, type |-> "keystroke",
                         timestamp |-> now,
                         charactersAdded |-> inp.charactersAdded,
                         linesAdded |-> inp.linesAdded ]
              q     == typingQueueForReporting(failedEvents, reportQueue, st,
                                               config, event)
              c     == performPeriodicCleanup(q.failedEvents, lastCleanupTime, now)
          IN  /\ statistics' = st
              /\ reportQueue' = q.reportQueue
              /\ failedEvents' = CatchAll(c.failedEvents, q.thrown, config)
              /\ lastCleanupTime' = c.lastCleanupTime
              /\ inflight' = inflight \o q.started
              /\ nextEvent' = nextEvent + 1
              /\ lastOp' = TurnOp("trackManualTyping",
                                  q.started # <<>> \/ q.thrown # <<>>,
                                  q, c.failedEvents, TRUE,
                                  Len(reportQueue) >= MAX_QUEUE_SIZE)
              /\ hist' = HistFailedAll(HistQueued(hist, event.id), q.thrown)
              /\ Len(inflight') <= MaxInFlight
              /\ UNCHANGED << svc, device, pendingSuggestions, config, reportTimer,
                              timers, now >>

\* configure(partial) of the typing service
configure(partial) ==
  /\ svc = "typing"
  /\ LET cfg == Merge(config, partial)
         ts  == IF reportTimer # 0 THEN clearInterval(timers, reportTimer) ELSE timers
         r   == IF cfg.reportEnabled
                THEN typingStartPeriodicReporting(cfg, reportTimer, ts)
                ELSE [ reportTimer |-> reportTimer, timers |-> ts ]
     IN  /\ config' = cfg
         /\ reportTimer' = r.reportTimer
         /\ timers' = r.timers
  /\ lastOp' = Op("configure", "none")
  /\ UNCHANGED << svc, device, statistics, pendingSuggestions, reportQueue, failedEvents,
                  inflight, lastCleanupTime, now, nextEvent, hist >>

\* dispose() of the typing service
dispose_keepTimer ==
  /\ svc = "typing"
  /\ reportTimer' = 0
  /\ lastOp' = Op("dispose", "none")
  /\ UNCHANGED << svc, device, statistics, pendingSuggestions, config, reportQueue,
                  failedEvents, timers, inflight, lastCleanupTime, now,
                  nextEvent, hist >>
dispose ==
  /\ svc = "typing"
  /\ timers' = IF reportTimer # 0 THEN clearInterval(timers, reportTimer) ELSE timers
  /\ reportTimer' = 0
  /\ lastOp' = Op("dispose", "none")
  /\ UNCHANGED << svc, device, statistics, pendingSuggestions, config, reportQueue,
                  failedEvents, inflight, lastCleanupTime, now, nextEvent, hist >>

trackSuggestionDisplayed_oncePerId(completionId) ==
  /\ svc = "autocomplete"
  /\ statistics' =
       IF completionId \in PendingIds(pendingSuggestions)
       THEN updateRates(statistics)
       ELSE updateRates([ statistics EXCEPT !.totalSuggestions = @ + 1 ])
  /\ pendingSuggestions' =
       PendingSet(pendingSuggestions, completionId,
                  [ completionId |-> completionId, displayTime |-> now ])
  /\ lastOp' = Op("trackSuggestionDisplayed", "none")
  /\ UNCHANGED << svc, device, config, reportQueue, failedEvents, reportTimer, timers,
                  inflight, lastCleanupTime, now, nextEvent, hist >>
trackSuggestionDisplayed(completionId) ==
  /\ svc = "autocomplete"
  /\ statistics' =
       updateRates([ statistics EXCEPT !.totalSuggestions = @ + 1 ])
  /\ pendingSuggestions' =
       PendingSet(pendingSuggestions, completionId,
                  [ completionId |-> completionId, displayTime |-> now ])
  /\ lastOp' = Op("trackSuggestionDisplayed", "none")
  /\ UNCHANGED << svc, device, config, reportQueue, failedEvents, reportTimer, timers,
                  inflight, lastCleanupTime, now, nextEvent, hist >>

\* trackAccept (kind = "accept", counter tabAccepts) and trackCancel
\* (kind = "cancel", counter escCancels)
Resolve_countsUnknown(name, kind, completionId) ==
  /\ svc = "autocomplete"
  /\ nextEvent <= MaxEvents
  /\ IF completionId \notin PendingIds(pendingSuggestions)
     THEN /\ lastOp' = Op(name, "none")
          /\ statistics' =
               updateRates(IF kind = "accept"
                           THEN [ statistics EXCEPT !.tabAccepts = @ + 1 ]
                           ELSE [ statistics EXCEPT !.escCancels = @ + 1 ])
          /\ UNCHANGED << svc, device, pendingSuggestions, config,
                          reportQueue, failedEvents, reportTimer, timers,
                          inflight, lastCleanupTime, nextEvent, now, hist >>
     ELSE LET pending == PendingGet(pendingSuggestions, completionId)
              st      == IF kind = "accept"
                         THEN [ statistics EXCEPT !.tabAccepts = @ + 1 ]
                         ELSE [ statistics EXCEPT !.escCancels = @ + 1 ]
              event   == [ id |-> nextEvent, type |-> kind,
                           completionId |-> completionId,
                           suggestionDisplayTime |-> now - pending.displayTime ]
              q       == autocompleteQueueForReporting(failedEvents, reportQueue,
                                                       st, config, event)
          IN  /\ pendingSuggestions' = PendingDelete(pendingSuggestions, completionId)
              /\ statistics' = updateRates(st)
              /\ reportQueue' = q.reportQueue
              /\ failedEvents' = CatchAll(q.failedEvents, q.thrown, config)
              /\ inflight' = inflight \o q.started
              /\ nextEvent' = nextEvent + 1
              /\ lastOp' = TurnOp(name, q.started # <<>> \/ q.thrown # <<>>,
                                  q, q.failedEvents, config.enabled, FALSE)
              /\ hist' = IF config.enabled
                         THEN HistFailedAll(HistQueued(hist, event.id), q.thrown)
                         ELSE hist
              /\ Len(inflight') <= MaxInFlight
              /\ UNCHANGED << svc, device, config, reportTimer, timers,
                              lastCleanupTime, now >>

Resolve(name, kind, completionId) ==
  /\ svc = "autocomplete"
  /\ nextEvent <= MaxEvents
  /\ IF completionId \notin PendingIds(pendingSuggestions)
     THEN /\ lastOp' = Op(name, "none")
          /\ UNCHANGED << svc, device, statistics, pendingSuggestions, config,
                          reportQueue, failedEvents, reportTimer, timers,
                          inflight, lastCleanupTime, nextEvent, now, hist >>
     ELSE LET pending == PendingGet(pendingSuggestions, completionId)
              st      == IF kind = "accept"
                         THEN [ statistics EXCEPT !.tabAccepts = @ + 1 ]
                         ELSE [ statistics EXCEPT !.escCancels = @ + 1 ]
              event   == [ id |-> nextEvent, type |-> kind,
                           completionId |-> completionId,
                           suggestionDisplayTime |-> now - pending.displayTime ]
              q       == autocompleteQueueForReporting(failedEvents, reportQueue,
                                                       st, config, event)
          IN  /\ pendingSuggestions' = PendingDelete(pendingSuggestions, completionId)
              /\ statistics' = updateRates(st)
              /\ reportQueue' = q.reportQueue
              /\ failedEvents' = CatchAll(q.failedEvents, q.thrown, config)
              /\ inflight' = inflight \o q.started
              /\ nextEvent' = nextEvent + 1
              /\ lastOp' = TurnOp(name, q.started # <<>> \/ q.thrown # <<>>,
                                  q, q.failedEvents, config.enabled, FALSE)
              /\ hist' = IF config.enabled
                         THEN HistFailedAll(HistQueued(hist, event.id), q.thrown)
                         ELSE hist
              /\ Len(inflight') <= MaxInFlight
              /\ UNCHANGED << svc, device, config, reportTimer, timers,
                              lastCleanupTime, now >>

trackAccept(completionId) == Resolve("trackAccept", "accept", completionId)

trackCancel(completionId) == Resolve("trackCancel", "cancel", completionId)

\* the ids cleanupPendingSuggestions collects, in the Map's insertion order
toRemove_all(p, t, maxAgeMs) == [ i \in 1..Len(p) |-> p[i].completionId ]
toRemove(p, t, maxAgeMs) ==
  LET old == SelectSeq(p, LAMBDA e : t - e.displayTime > maxAgeMs)
  IN  [ i \in 1..Len(old) |-> old[i].completionId ]

\* toRemove.forEach(trackCancel): the state after the calls for ids, from the
\* state c; the flushes the calls start or see throw are collected in c
RECURSIVE cancelEach(_, _, _, _)
cancelEach(c, ids, t, cfg) ==
  IF ids = <<>> THEN c
  ELSE IF Head(ids) \notin PendingIds(c.pendingSuggestions)
  THEN cancelEach(c, Tail(ids), t, cfg)
  ELSE LET pending == PendingGet(c.pendingSuggestions, Head(ids))
           st      == [ c.statistics EXCEPT !.escCancels = @ + 1 ]
           event   == [ id |-> c.nextEvent, type |-> "cancel",
                        completionId |-> Head(ids),
                        suggestionDisplayTime |-> t - pending.displayTime ]
           q       == autocompleteQueueForReporting(c.failedEvents, c.reportQueue,
                                                    st, cfg, event)
       IN  cancelEach(
             [ statistics         |-> updateRates(st),
               pendingSuggestions |-> PendingDelete(c.pendingSuggestions, Head(ids)),
               reportQueue        |-> q.reportQueue,
               failedEvents       |-> q.failedEvents,
               started            |-> c.started \o q.started,
               thrown             |-> c.thrown \o q.thrown,
               nextEvent          |-> c.nextEvent + 1,
               hist               |-> IF cfg.enabled
                                      THEN HistQueued(c.hist, event.id)
                                      ELSE c.hist ],
             Tail(ids), t, cfg)

cleanupPendingSuggestions(maxAgeMs) ==
  /\ svc = "autocomplete"
  /\ LET ids == toRemove(pendingSuggestions, now, maxAgeMs)
         c   == cancelEach([ statistics         |-> statistics,
                             pendingSuggestions |-> pendingSuggestions,
                             reportQueue        |-> reportQueue,
                             failedEvents       |-> failedEvents,
                             started            |-> <<>>,
                             thrown             |-> <<>>,
                             nextEvent          |-> nextEvent,
                             hist               |-> hist ],
                           ids, now, config)
     IN  /\ nextEvent + Len(ids) <= MaxEvents + 1
         /\ statistics' = c.statistics
         /\ pendingSuggestions' = c.pendingSuggestions
         /\ reportQueue' = c.reportQueue
         /\ failedEvents' = CatchAll(c.failedEvents, c.thrown, config)
         /\ inflight' = inflight \o c.started
         /\ nextEvent' = c.nextEvent
         /\ hist' = HistFailedAll(c.hist, c.thrown)
         /\ lastOp' = OpLog("cleanupPendingSuggestions",
                            IF c.thrown # <<>> THEN "failure"
                            ELSE IF c.started # <<>> THEN "started"
                            ELSE "none",
                            ids # <<>> /\ config.enabled, FALSE, 0)
         /\ Len(inflight') <= MaxInFlight
  /\ UNCHANGED << svc, device, config, reportTimer, timers, lastCleanupTime, now >>

\* Date.now() between two turns: later by more than the default maxAgeMs
Tick ==
  /\ now < InitialTime + MaxTicks * 30001
  /\ now' = now + 30001
  /\ lastOp' = Op("tick", "none")
  /\ UNCHANGED << svc, device, statistics, pendingSuggestions, config, reportQueue,
                  failedEvents, reportTimer, timers, inflight, lastCleanupTime,
                  nextEvent, hist >>

\* Date.now() between two turns: later by ms
Elapse(ms) ==
  /\ now + ms <= InitialTime + MaxElapsed
  /\ now' = now + ms
  /\ lastOp' = Op("elapse", "none")
  /\ UNCHANGED << svc, device, statistics, pendingSuggestions, config, reportQueue,
                  failedEvents, reportTimer, timers, inflight, lastCleanupTime,
                  nextEvent, hist >>

\* configureReporting(partial) of the autocomplete service
configureReporting(partial) ==
  /\ svc = "autocomplete"
  /\ LET cfg == Merge(config, partial)
         ts  == IF reportTimer # 0 THEN clearInterval(timers, reportTimer) ELSE timers
         r   == IF cfg.enabled
                THEN autocompleteStartPeriodicReporting(cfg, reportTimer, ts)
                ELSE [ reportTimer |-> reportTimer, timers |-> ts ]
     IN  /\ config' = cfg
         /\ reportTimer' = r.reportTimer
         /\ timers' = r.timers
  /\ lastOp' = Op("configureReporting", "none")
  /\ UNCHANGED << svc, device, statistics, pendingSuggestions, reportQueue, failedEvents,
                  inflight, lastCleanupTime, now, nextEvent, hist >>

\* resetStatistics() of either service (the explicit user action)
resetStatistics ==
  /\ IF svc = "typing"
     THEN /\ statistics' = InitialTypingStatistics
          /\ UNCHANGED pendingSuggestions
     ELSE /\ statistics' = InitialAutocompleteStatistics
          /\ pendingSuggestions' = <<>>
  /\ lastOp' = Op("resetStatistics", "none")
  /\ UNCHANGED << svc, device, config, reportQueue, failedEvents, reportTimer, timers,
                  inflight, lastCleanupTime, now, nextEvent, hist >>

\* One turn that calls reportEvents / flushReportQueue and nothing else.
FlushTurn(name) ==
  /\ LET q == Flush(failedEvents, reportQueue, statistics, config)
     IN  /\ reportQueue' = q.reportQueue
         /\ failedEvents' = CatchAll(q.failedEvents, q.thrown, config)
         /\ inflight' = inflight \o q.started
         /\ lastOp' = TurnOp(name, TRUE, q, q.failedEvents, FALSE, FALSE)
         /\ hist' = HistFailedAll(HistForceCalled(hist, name, q), q.thrown)
  /\ Len(inflight') <= MaxInFlight
  /\ UNCHANGED << svc, device, statistics, pendingSuggestions, config, reportTimer,
                  timers, lastCleanupTime, now, nextEvent >>

\* the callback of an armed setInterval timer
PeriodicTimerFires ==
  /\ \E t \in timers : t.kind = "interval"
  /\ FlushTurn("periodicTimer")

\* forceReport()
forceReport == FlushTurn("forceReport")

\* the code after `await this.sendReport(...)` in the try block
OnDelivered(st, pend) ==
  IF svc = "typing"
  THEN [ statistics |-> resetStatisticsAfterReport(st), pendingSuggestions |-> pend ]
  ELSE [ statistics |-> InitialAutocompleteStatistics, pendingSuggestions |-> <<>> ]

\* the response is ok: uploadLog and sendReport return
FetchSucceeds(i) ==
  /\ i \in 1..Len(inflight)
  /\ inflight[i].phase = "upload"
  /\ LET r == OnDelivered(statistics, pendingSuggestions)
     IN  /\ statistics' = r.statistics
         /\ pendingSuggestions' = r.pendingSuggestions
  /\ inflight' = RemoveAt(inflight, i)
  /\ lastOp' = Op("delivery", "success")
  /\ hist' = HistSettled(hist, inflight[i].batch, FALSE)
  /\ UNCHANGED << svc, device, config, reportQueue, failedEvents, reportTimer, timers,
                  lastCleanupTime, now, nextEvent >>

\* sendReport has thrown (the catch block runs, the flush ends) or suspends
Settle(i, r) ==
  IF r.thrown
  THEN /\ failedEvents' = Catch(failedEvents, r.d.batch, config)
       /\ inflight' = RemoveAt(inflight, i)
       /\ lastOp' = OpLog("delivery", "failure", FALSE, FALSE,
                          Discarded(failedEvents, r.d.batch, config))
       /\ hist' = HistSettled(HistFailed(hist, r.d.batch), r.d.batch, TRUE)
  ELSE /\ inflight' = [ inflight EXCEPT ![i] = r.d ]
       /\ lastOp' = Op("delivery", "retry")
       /\ UNCHANGED << failedEvents, hist >>

\* fetch threw, timed out or answered non-2xx: uploadLog throws `error`
FetchFails(i, error) ==
  /\ i \in 1..Len(inflight)
  /\ inflight[i].phase = "upload"
  /\ Settle(i, OnUploadError([ inflight[i] EXCEPT !.calls = @ + 1 ], error, config))
  /\ UNCHANGED << svc, device, statistics, pendingSuggestions, config, reportQueue,
                  reportTimer, timers, lastCleanupTime, now, nextEvent >>

\* the setTimeout of the backoff fires
BackoffElapses(i) ==
  /\ i \in 1..Len(inflight)
  /\ inflight[i].phase = "backoff"
  /\ Settle(i, nextAttempt(inflight[i], config))
  /\ UNCHANGED << svc, device, statistics, pendingSuggestions, config, reportQueue,
                  reportTimer, timers, lastCleanupTime, now, nextEvent >>

\* -------------------------------------------------------- device identity
\* The device-id.txt files the two services share.  device holds
\*   global    the version directory under CONTINUE_GLOBAL_DIR (or ~/.continue)
\*   cwd       the fallback directory under process.cwd()
\*   uuids     how many identifiers crypto.randomUUID() has handed out; the
\*             n-th identifier is n, so every new one differs from the others
\*   returned  what the last call of getOrCreateDeviceId returned or threw
\* and as history
\*   calls     the number of calls so far
\*   first     the identifier the first call returned (0: none)
\*   steady    no call so far met a failing file system operation
\*   wrote     the last call ran writeFileSync to its end
\*   failed    the last call found no directory, or could not read or write
\*             the file of the directory it found
\* The content of a file is text: 0 for a content that trim() leaves empty,
\* n for the n-th identifier.
NoFile == [present |-> FALSE, text |-> 0]

FileOf(text) == [present |-> TRUE, text |-> text]

\* the operations of fs that may throw during one call
StorageFaults == {"mkdirGlobal", "mkdirCwd", "readFile", "writeFile"}

\* a machine on which an earlier upload has stored the identifier 1
InstalledDevice ==
  [ global   |-> [exists |-> TRUE, file |-> FileOf(1)],
    cwd      |-> [exists |-> FALSE, file |-> NoFile],
    uuids    |-> 1,
    returned |-> [thrown |-> FALSE, id |-> 0],
    calls    |-> 0,
    first    |-> 0,
    steady   |-> TRUE,
    wrote    |-> FALSE,
    failed   |-> FALSE ]

\* the directories a process may find when it starts
Directories ==
  { [exists |-> FALSE, file |-> NoFile], [exists |-> TRUE, file |-> NoFile],
    [exists |-> TRUE, file |-> FileOf(0)], [exists |-> TRUE, file |-> FileOf(1)] }

\* getContinueDataPath(): the global directory, created when it is missing;
\* when that throws, the fallback directory, created when it is missing, and
\* this second mkdirSync runs inside the catch block: what it throws leaves
\* the method.
getContinueDataPath(dev, faults) ==
  IF dev.global.exists
  THEN [thrown |-> FALSE, dir |-> "global", dev |-> dev]
  ELSE IF "mkdirGlobal" \notin faults
  THEN [thrown |-> FALSE, dir |-> "global",
        dev |-> [dev EXCEPT !.global.exists = TRUE]]
  ELSE IF dev.cwd.exists
  THEN [thrown |-> FALSE, dir |-> "cwd", dev |-> dev]
  ELSE IF "mkdirCwd" \notin faults
  THEN [thrown |-> FALSE, dir |-> "cwd", dev |-> [dev EXCEPT !.cwd.exists = TRUE]]
  ELSE [thrown |-> TRUE, dir |-> "none", dev |-> dev]

\* generateDeviceId(): crypto.randomUUID()
generateDeviceId(dev) == dev.uuids + 1

\* the file device-id.txt of the directory getDeviceIdPath() names
DeviceIdFile(dev, dir) == IF dir = "global" THEN dev.global.file ELSE dev.cwd.file

\* fs.writeFileSync(deviceIdPath, deviceId, "utf8")
writeDeviceId(dev, dir, id) ==
  IF dir = "global" THEN [dev EXCEPT !.global.file = FileOf(id)]
  ELSE [dev EXCEPT !.cwd.file = FileOf(id)]

\* The body of getOrCreateDeviceId: the device after the call.  The path is
\* computed before the try block; inside it the file is read, and when there
\* is none, or trim() leaves nothing of it, an identifier is generated and
\* written; the catch block generates one more and writes nothing.
deviceAfterCall(dev, faults) ==
  LET p    == getContinueDataPath(dev, faults)
      d    == p.dev
      file == DeviceIdFile(d, p.dir)
      id   == generateDeviceId(d)
      done == [d EXCEPT !.calls = IF @ < 2 THEN @ + 1 ELSE @]
  IN  IF p.thrown
      THEN [done EXCEPT !.returned = [thrown |-> TRUE, id |-> 0],
                        !.steady = FALSE, !.wrote = FALSE, !.failed = TRUE]
      ELSE IF file.present /\ "readFile" \in faults
      THEN [done EXCEPT !.returned = [thrown |-> FALSE, id |-> id],
                        !.uuids = id, !.steady = FALSE, !.wrote = FALSE,
                        !.failed = TRUE]
      ELSE IF file.present /\ file.text # 0
      THEN [done EXCEPT !.returned = [thrown |-> FALSE, id |-> file.text],
                        !.steady = @ /\ p.dir = "global", !.wrote = FALSE,
                        !.failed = FALSE]
      ELSE IF "writeFile" \in faults
      THEN [done EXCEPT !.returned = [thrown |-> FALSE, id |-> id + 1],
                        !.uuids = id + 1, !.steady = FALSE, !.wrote = FALSE,
                        !.failed = TRUE]
      ELSE [writeDeviceId(done, p.dir, id) EXCEPT
                        !.returned = [thrown |-> FALSE, id |-> id],
                        !.uuids = id, !.steady = @ /\ p.dir = "global",
                        !.wrote = TRUE, !.failed = FALSE]

\* uploadLog calls getOrCreateDeviceId() for the device_id of every request
getOrCreateDeviceId(faults) ==
  /\ device.uuids + 2 <= MaxUuids
  /\ device' = LET after == deviceAfterCall(device, faults)
               IN  [after EXCEPT !.first = IF device.calls = 0
                                           THEN after.returned.id ELSE @]
  /\ lastOp' = Op("getOrCreateDeviceId", "none")
  /\ UNCHANGED << svc, statistics, pendingSuggestions, config, reportQueue,
                  failedEvents, reportTimer, timers, inflight, lastCleanupTime,
                  now, nextEvent, hist >>

\* ----------------------------------------------------------- specification
\* The state after construction: the constructor calls startPeriodicReporting
\* with the default configuration.
InitService(recordOrder, recordPromises) ==
  /\ svc \in {"typing", "autocomplete"}
  /\ statistics = IF svc = "typing" THEN InitialTypingStatistics
                  ELSE InitialAutocompleteStatistics
  /\ pendingSuggestions = <<>>
  /\ config = IF svc = "typing" THEN DEFAULT_CONFIG ELSE DEFAULT_REPORT_CONFIG
  /\ reportQueue = <<>>
  /\ failedEvents = <<>>
  /\ reportTimer = 1
  /\ timers = { [id |-> 1, kind |-> "interval", interval |-> config.reportInterval] }
  /\ inflight = <<>>
  /\ lastCleanupTime = 0
  /\ now = InitialTime
  /\ nextEvent = 1
  /\ lastOp = Op("construct", "none")
  /\ hist = [ on |-> recordOrder, failed |-> {}, before |-> {},
              promises |-> recordPromises, force |-> "none", forceKey |-> 0,
              forceFailed |-> FALSE, unhandled |-> FALSE ]

\* ... on a machine whose device-id.txt is in place: every upload reads it and
\* leaves the disk as it is
InitState(recordOrder, recordPromises) ==
  /\ InitService(recordOrder, recordPromises)
  /\ device = InstalledDevice

Init == InitState(FALSE, FALSE)

\* The delivery pipeline of either service under every interleaving of its
\* producers, its three flush triggers and the steps of its deliveries.
Next ==
  \/ \E inp \in TypingInputs : trackManualTyping(inp)
  \/ \E partial \in PipelineTypingPartials : configure(partial)
  \/ /\ svc = "autocomplete"
     /\ statistics.totalSuggestions < MaxSuggestions
     /\ trackSuggestionDisplayed("c1")
  \/ trackAccept("c1")
  \/ \E partial \in PipelineReportPartials : configureReporting(partial)
  \/ PeriodicTimerFires
  \/ forceReport
  \/ \E i \in 1..MaxInFlight : FetchSucceeds(i)
  \/ \E i \in 1..MaxInFlight, error \in TransportErrors : FetchFails(i, error)
  \/ \E i \in 1..MaxInFlight : BackoffElapses(i)

Spec == Init /\ [][Next]_vars

\* The whole configuration surface, dispose and the explicit reset, with the
\* producers and one delivery at a time.
NextConfig ==
  \/ \E partial \in TypingPartials : configure(partial)
  \/ dispose
  \/ \E partial \in ReportPartials : configureReporting(partial)
  \/ resetStatistics
  \/ /\ inflight = <<>>
     /\ nextEvent <= MaxConfigEvents
     /\ \E inp \in TypingInputs : trackManualTyping(inp)
  \/ /\ svc = "autocomplete"
     /\ statistics.totalSuggestions < MaxSuggestions
     /\ trackSuggestionDisplayed("c1")
  \/ inflight = <<>> /\ nextEvent <= MaxConfigEvents /\ trackAccept("c1")
  \/ inflight = <<>> /\ nextEvent <= MaxConfigEvents /\ trackCancel("c1")
  \/ inflight = <<>> /\ PeriodicTimerFires
  \/ inflight = <<>> /\ forceReport
  \/ FetchSucceeds(1)
  \/ \E error \in TransportErrors : FetchFails(1, error)
  \/ BackoffElapses(1)

SpecConfig == Init /\ [][NextConfig]_vars

\* The delivery pipeline with the order of failures and enqueues recorded.
InitOrder == InitState(TRUE, FALSE)

NextOrder ==
  \/ \E inp \in TypingInputs : validateInput(inp) /\ trackManualTyping(inp)
  \/ configure([batchSize |-> 2])
  \/ /\ svc = "autocomplete"
     /\ statistics.totalSuggestions < MaxSuggestions
     /\ trackSuggestionDisplayed("c1")
  \/ trackAccept("c1")
  \/ configureReporting([batchSize |-> 2])
  \/ PeriodicTimerFires
  \/ forceReport
  \/ \E i \in 1..MaxInFlight : FetchSucceeds(i)
  \/ \E i \in 1..MaxInFlight, error \in TransportErrors : FetchFails(i, error)
  \/ \E i \in 1..MaxInFlight : BackoffElapses(i)

SpecOrder == InitOrder /\ [][NextOrder]_vars

\* The producers filling the primary queue under the default configuration,
\* with the periodic flush and one delivery at a time.
NextCapacity ==
  \/ \E inp \in TypingInputs : validateInput(inp) /\ trackManualTyping(inp)
  \/ /\ svc = "autocomplete"
     /\ statistics.totalSuggestions < MaxCapacitySuggestions
     /\ trackSuggestionDisplayed("c1")
  \/ trackAccept("c1")
  \/ inflight = <<>> /\ PeriodicTimerFires
  \/ FetchSucceeds(1)
  \/ \E error \in TransportErrors : FetchFails(1, error)
  \/ BackoffElapses(1)

SpecCapacity == Init /\ [][NextCapacity]_vars

\* The life of a suggestion: two completion ids displayed, accepted, cancelled
\* or left to age until cleanupPendingSuggestions cancels them.
NextSuggest ==
  \/ \E completionId \in CompletionIds :
       /\ svc = "autocomplete"
       /\ statistics.totalSuggestions < MaxCapacitySuggestions
       /\ trackSuggestionDisplayed(completionId)
  \/ \E completionId \in CompletionIds : trackAccept(completionId)
  \/ \E completionId \in CompletionIds : trackCancel(completionId)
  \/ cleanupPendingSuggestions(30000)
  \/ svc = "autocomplete" /\ Tick
  \/ svc = "autocomplete" /\ resetStatistics
  \/ inflight = <<>> /\ PeriodicTimerFires
  \/ FetchSucceeds(1)

SpecSuggest == Init /\ [][NextSuggest]_vars

\* The cleanup of aged suggestions, with reporting enabled or disabled and a
\* batch size that the cancels of one cleanup reach.
NextCleanup ==
  \/ \E completionId \in CompletionIds :
       /\ svc = "autocomplete"
       /\ statistics.totalSuggestions < MaxSuggestions
       /\ trackSuggestionDisplayed(completionId)
  \/ trackAccept("c1")
  \/ cleanupPendingSuggestions(30000)
  \/ svc = "autocomplete" /\ Tick
  \/ \E partial \in CleanupReportPartials : configureReporting(partial)
  \/ \E i \in 1..MaxInFlight : FetchSucceeds(i)
  \/ \E i \in 1..MaxInFlight, error \in TransportErrors : FetchFails(i, error)
  \/ \E i \in 1..MaxInFlight : BackoffElapses(i)

SpecCleanup == Init /\ [][NextCleanup]_vars

\* Forced reports, one delivery at a time: events are tracked and the batch
\* size is changed while nothing is in flight; the failures and the promise of
\* forceReport are recorded.
InitForce == InitState(TRUE, TRUE)

NextForce ==
  \/ /\ inflight = <<>>
     /\ \E inp \in TypingInputs : validateInput(inp) /\ trackManualTyping(inp)
  \/ \E completionId \in CompletionIds :
       /\ svc = "autocomplete"
       /\ statistics.totalSuggestions < MaxCapacitySuggestions
       /\ trackSuggestionDisplayed(completionId)
  \/ inflight = <<>> /\ \E completionId \in CompletionIds : trackAccept(completionId)
  \/ inflight = <<>> /\ configure([batchSize |-> 1])
  \/ inflight = <<>> /\ configureReporting([batchSize |-> 1])
  \/ inflight = <<>> /\ forceReport
  \/ FetchSucceeds(1)
  \/ \E error \in TransportErrors : FetchFails(1, error)
  \/ BackoffElapses(1)

SpecForce == InitForce /\ [][NextForce]_vars

\* The retry policy: one delivery at a time, started by forceReport, with the
\* configuration changed between deliveries.
NextRetry ==
  \/ /\ inflight = <<>>
     /\ nextEvent <= MaxConfigEvents
     /\ \E inp \in TypingInputs : validateInput(inp) /\ trackManualTyping(inp)
  \/ /\ svc = "autocomplete"
     /\ statistics.totalSuggestions < MaxSuggestions
     /\ trackSuggestionDisplayed("c1")
  \/ inflight = <<>> /\ nextEvent <= MaxConfigEvents /\ trackAccept("c1")
  \/ inflight = <<>> /\ \E partial \in RetryTypingPartials : configure(partial)
  \/ inflight = <<>> /\ \E partial \in RetryReportPartials : configureReporting(partial)
  \/ inflight = <<>> /\ forceReport
  \/ FetchSucceeds(1)
  \/ \E error \in TransportErrors : FetchFails(1, error)
  \/ BackoffElapses(1)

SpecRetry == Init /\ [][NextRetry]_vars

\* The delivery pipeline with the settlement of the flush promises recorded;
\* forceReport is called again once its promise has settled.
InitPromise == InitState(FALSE, TRUE)

NextPromise ==
  \/ /\ nextEvent <= MaxConfigEvents
     /\ \E inp \in TypingInputs : validateInput(inp) /\ trackManualTyping(inp)
  \/ \E partial \in PipelineTypingPartials : configure(partial)
  \/ /\ svc = "autocomplete"
     /\ statistics.totalSuggestions < MaxSuggestions
     /\ trackSuggestionDisplayed("c1")
  \/ nextEvent <= MaxConfigEvents /\ trackAccept("c1")
  \/ \E partial \in PipelineReportPartials : configureReporting(partial)
  \/ PeriodicTimerFires
  \/ hist.force # "pending" /\ forceReport
  \/ \E i \in 1..MaxInFlight : FetchSucceeds(i)
  \/ \E i \in 1..MaxInFlight, error \in TransportErrors : FetchFails(i, error)
  \/ \E i \in 1..MaxInFlight : BackoffElapses(i)

SpecPromise == InitPromise /\ [][NextPromise]_vars

\* The pipeline under fair scheduling: an armed interval timer fires again
\* and again, a pending fetch is answered (sendReport returns when the answer
\* is ok), and the setTimeout of a backoff fires.  Whether a fetch succeeds
\* or fails is left open.  The failures are recorded.
NextLive ==
  \/ /\ nextEvent <= MaxConfigEvents
     /\ \E inp \in TypingInputs : validateInput(inp) /\ trackManualTyping(inp)
  \/ /\ svc = "autocomplete"
     /\ statistics.totalSuggestions < MaxSuggestions
     /\ trackSuggestionDisplayed("c1")
  \/ nextEvent <= MaxConfigEvents /\ trackAccept("c1")
  \/ \E partial \in LiveTypingPartials : configure(partial)
  \/ \E partial \in LiveReportPartials : configureReporting(partial)
  \/ PeriodicTimerFires
  \/ \E i \in 1..MaxInFlight : FetchSucceeds(i)
  \/ \E i \in 1..MaxInFlight, error \in TransportErrors : FetchFails(i, error)
  \/ \E i \in 1..MaxInFlight : BackoffElapses(i)

SpecLive ==
  /\ InitOrder
  /\ [][NextLive]_vars
  /\ WF_vars(PeriodicTimerFires)
  /\ \A i \in 1..MaxInFlight : WF_vars(FetchSucceeds(i) \/ \E error \in TransportErrors : FetchFails(i, error))
  /\ \A i \in 1..MaxInFlight : WF_vars(BackoffElapses(i))

\* The typing service over more than a day: the age cleanup of the failed
\* queue among the flushes and their failures.
InitAge == Init /\ svc = "typing"

NextAge ==
  \/ trackManualTyping(AgeTypingInput)
  \/ \E ms \in ElapseSteps :
       (now + ms - InitialTime) \in ElapseOffsets /\ Elapse(ms)
  \/ \E partial \in AgeTypingPartials : configure(partial)
  \/ inflight = <<>> /\ PeriodicTimerFires
  \/ FetchSucceeds(1)
  \/ FetchFails(1, [name |-> "Error", contains |-> {}])

SpecAge == InitAge /\ [][NextAge]_vars

\* The device identity alone: the calls of getOrCreateDeviceId of one process,
\* from every state of the two directories, each call with the file system
\* operations that fail during it.
InitDevice ==
  /\ InitService(FALSE, FALSE)
  /\ device \in { [InstalledDevice EXCEPT !.global = g, !.cwd = c] :
                    g \in Directories, c \in Directories }

NextDevice ==
  \E faults \in SUBSET StorageFaults : getOrCreateDeviceId(faults)

SpecDevice == InitDevice /\ [][NextDevice]_vars

\* ------------------------------------------------------------------ claims
\* the delivery a step started (the step made inflight one longer)
StartedDelivery == inflight'[Len(inflight')]

\* the primary queue as the flush of a step found it: the queue before the
\* step, without the entry the step evicted, with the event the step queued
PrimaryAtFlush(event) ==
  IF lastOp'.enq
  THEN Append(IF lastOp'.evicted THEN Tail(reportQueue) ELSE reportQueue, event)
  ELSE reportQueue

\* C1: whenever a flush drains a non-empty batch, the batch handed to
\* sendReport is the failed queue followed by the primary queue as the flush
\* found them, and both queues are empty while no transport call of that
\* delivery has been made yet.
C1_BatchIsFailedThenPrimary ==
  [][ Len(inflight') = Len(inflight) + 1 =>
        LET d    == StartedDelivery
            last == d.batch[Len(d.batch)]
        IN  /\ d.batch # <<>>
            /\ d.batch = failedEvents \o PrimaryAtFlush(last)
            /\ lastOp'.enq => last.id = nextEvent
            /\ reportQueue' = <<>>
            /\ failedEvents' = <<>>
            /\ d.calls = 0 /\ d.attempt = 1 /\ d.phase = "upload" ]_vars

\* C1 witness: a producer call of the typing service has just started a
\* delivery whose batch is longer than the primary queue can be, so that it
\* holds retried events followed by queued ones.
C1_Witness ==
  /\ svc = "typing"
  /\ lastOp.op = "trackManualTyping" /\ lastOp.result = "started"
  /\ Len(inflight[Len(inflight)].batch) > MAX_QUEUE_SIZE
  /\ reportQueue = <<>> /\ failedEvents = <<>>

\* C3: a flush invoked (by the periodic timer or by forceReport) while both
\* queues are empty starts no delivery and changes nothing.
C3_EmptyFlushIsNoOp ==
  [][ ( /\ lastOp'.op \in {"periodicTimer", "forceReport"}
        /\ reportQueue = <<>>
        /\ failedEvents = <<>> )
      => /\ lastOp'.result = "empty"
         /\ UNCHANGED << statistics, pendingSuggestions, config, reportQueue,
                         failedEvents, reportTimer, timers, inflight,
                         lastCleanupTime, nextEvent >> ]_vars

\* C3 witness: forceReport found both queues empty right after another flush
\* had drained them (its delivery is still in flight).
C3_Witness ==
  /\ lastOp.op = "forceReport" /\ lastOp.result = "empty"
  /\ inflight # <<>>
  /\ reportQueue = <<>> /\ failedEvents = <<>>

\* C4: no event is in two in-flight batches at once, and no event of an
\* in-flight batch is in the primary or in the failed queue.
C4_InFlightBatchesExclusive ==
  /\ \A i, j \in 1..Len(inflight) :
       i # j => Ids(inflight[i].batch) \cap Ids(inflight[j].batch) = {}
  /\ \A i \in 1..Len(inflight) :
       Ids(inflight[i].batch) \cap (Ids(reportQueue) \cup Ids(failedEvents)) = {}

\* C4 witness: two deliveries are suspended, one at its network call and one
\* in a backoff wait, while a new event is queued.
C4_Witness ==
  /\ Len(inflight) = 2
  /\ \E i, j \in 1..2 : inflight[i].phase = "upload" /\ inflight[j].phase = "backoff"
  /\ reportQueue # <<>>

\* C5 (as stated): the primary queue of either pipeline never holds more than
\* MAX_QUEUE_SIZE events.
C5_PrimaryQueueBounded == Len(reportQueue) <= MAX_QUEUE_SIZE

\* the ids of a sequence of events, in order
IdSeq(s) == [ i \in 1..Len(s) |-> s[i].id ]

\* the longest suffix of s that has at most n elements
LongestSuffix(s, n) ==
  IF Len(s) <= n THEN s
  ELSE IF n <= 0 THEN <<>>
  ELSE SubSeq(s, Len(s) - n + 1, Len(s))

\* batchSize x 2, the bound the catch block of a flush trims to
FailedCap(cfg) == cfg.batchSize * 2

\* the primary queue a producer call leaves to the size test: the queue
\* before the call without the entry evicted, with the new event's id
QueueIdsAtEnqueue ==
  IdSeq(IF lastOp'.evicted THEN Tail(reportQueue) ELSE reportQueue)
    \o (IF lastOp'.enq THEN << nextEvent >> ELSE << >>)

\* C2 (as stated): in every batch handed to delivery, an event that failed
\* before another event was queued comes before that event, and two events of
\* a failed batch keep the order they had in it.
C2_FailedBatchRetriedFirst ==
  \A k \in 1..Len(inflight) :
    \A i, j \in 1..Len(inflight[k].batch) :
      i < j => << inflight[k].batch[j].id, inflight[k].batch[i].id >> \notin hist.before

\* C6 (as stated): in every reachable state the failed queue holds at most
\* (currently configured batchSize) x 2 events.
C6_FailedQueueBounded == Len(failedEvents) <= FailedCap(config)

\* C6 (amended): a step in which a delivery fails leaves at most
\* batchSize x 2 events in the failed queue (batchSize as configured at that
\* moment), and no other step makes the failed queue longer.
C6_FailedQueueTrimmedOnFailure ==
  [][ IF lastOp'.result = "failure"
      THEN Len(failedEvents') <= FailedCap(config')
      ELSE Len(failedEvents') <= Len(failedEvents) ]_vars

\* C6 witness: a delivery has failed, the catch block discarded events and the
\* failed queue stands at its bound.
C6_Witness ==
  /\ lastOp.result = "failure"
  /\ lastOp.discarded > 0
  /\ Len(failedEvents) = FailedCap(config)

\* C7: when the delivery of a batch fails, the failed queue afterwards is the
\* longest suffix of at most batchSize x 2 events of (failed queue at that
\* moment followed by the failed batch), and the number logged as discarded
\* is the number of events dropped from its front.  A flush rejected in the
\* turn that started it had emptied the failed queue into its batch.
C7_FailedQueueIsLongestSuffix ==
  [][ lastOp'.result = "failure" =>
        IF lastOp'.op = "delivery"
        THEN \E i \in 1..Len(inflight) :
               /\ inflight' = RemoveAt(inflight, i)
               /\ failedEvents' =
                    LongestSuffix(failedEvents \o inflight[i].batch, FailedCap(config))
               /\ lastOp'.discarded =
                    Len(failedEvents) + Len(inflight[i].batch) - Len(failedEvents')
        ELSE /\ IdSeq(failedEvents') =
                  LongestSuffix(IdSeq(failedEvents) \o QueueIdsAtEnqueue,
                                FailedCap(config))
             /\ lastOp'.discarded =
                  Len(failedEvents) + Len(QueueIdsAtEnqueue) - Len(failedEvents')
    ]_vars

\* C7 witness: a delivery has failed while the failed queue held events of an
\* earlier failure, and the oldest entries were dropped.
C7_Witness ==
  /\ lastOp.op = "delivery" /\ lastOp.result = "failure"
  /\ lastOp.discarded > 0
  /\ Len(failedEvents) >= 2

\* C8 (as stated): after any producer call returns, the primary queue holds
\* fewer than batchSize events.
C8_QueueBelowBatchSizeAfterProducer ==
  lastOp.op \in {"trackManualTyping", "trackAccept", "trackCancel"}
    => Len(reportQueue) < config.batchSize

\* C8 (amended): a producer call that queues an event whose enqueue makes the
\* primary queue reach batchSize runs the flush before it returns (the queue
\* is empty and a delivery has started or was rejected); otherwise the event
\* stays queued and no flush runs; either way the queue then holds fewer than
\* batchSize events.
C8_SizeTriggerIsSynchronous ==
  [][ lastOp'.enq =>
        /\ IF Len(QueueIdsAtEnqueue) >= config.batchSize
           THEN /\ reportQueue' = <<>>
                /\ lastOp'.result \in {"started", "failure"}
           ELSE /\ IdSeq(reportQueue') = QueueIdsAtEnqueue
                /\ lastOp'.result = "none"
                /\ inflight' = inflight
        /\ Len(reportQueue') < config.batchSize ]_vars

\* C8 witness: a producer call has just made the queue reach batchSize (two or
\* more events) and its flush has handed them to a delivery.
C8_Witness ==
  /\ lastOp.enq /\ lastOp.result = "started"
  /\ reportQueue = <<>>
  /\ config.batchSize >= 2
  /\ inflight # <<>>
  /\ Len(inflight[Len(inflight)].batch) = config.batchSize

\* C9 (as stated): after an event has been queued into an empty primary queue
\* a one-shot (delayed) flush timer is armed.
C9_DelayedTimerArmed ==
  (lastOp.enq /\ lastOp.result = "none" /\ Len(reportQueue) = 1)
    => \E t \in timers : t.kind = "timeout"

\* whether periodic reporting is enabled in cfg
ReportingEnabled(cfg) == IF svc = "typing" THEN cfg.reportEnabled ELSE cfg.enabled

\* C10: configure, configureReporting and dispose leave the primary queue,
\* the failed queue, the statistics, the pending suggestions and the
\* deliveries in flight unchanged; after configure/configureReporting the
\* armed timers are exactly one periodic timer with the new interval when
\* reporting is enabled and none when it is disabled; after dispose none.
C10_ConfigureKeepsQueuesRearmsTimer ==
  [][ lastOp'.op \in {"configure", "configureReporting", "dispose"} =>
        /\ UNCHANGED << reportQueue, failedEvents, statistics,
                        pendingSuggestions, inflight >>
        /\ timers' =
             IF lastOp'.op # "dispose" /\ ReportingEnabled(config')
             THEN { [ id |-> reportTimer', kind |-> "interval",
                      interval |-> config'.reportInterval ] }
             ELSE {} ]_vars

\* C10 witness: configure has re-armed the periodic timer with a new interval
\* while events were waiting in both queues.
C10_Witness ==
  /\ lastOp.op \in {"configure", "configureReporting"}
  /\ reportQueue # <<>> /\ failedEvents # <<>>
  /\ config.reportInterval = 60000
  /\ \E t \in timers : t.interval = 60000

\* C11: dispose() cancels the periodic timer and leaves the deliveries in
\* flight alone; while the service is disposed (no timer handle) no periodic
\* flush runs, and a delivery that ends then still resets the counters (on
\* success) or returns its batch to the failed queue (on failure).
C11_DisposeStopsTimerNotDelivery ==
  [][ /\ lastOp'.op = "dispose" => (inflight' = inflight /\ timers' = {})
      /\ (svc = "typing" /\ reportTimer = 0) =>
           /\ timers = {}
           /\ lastOp'.op # "periodicTimer"
           /\ (lastOp'.op = "delivery" /\ lastOp'.result = "success") =>
                /\ statistics' = resetStatisticsAfterReport(statistics)
                /\ Len(inflight') = Len(inflight) - 1
           /\ (lastOp'.op = "delivery" /\ lastOp'.result = "failure") =>
                \E i \in 1..Len(inflight) :
                  /\ inflight' = RemoveAt(inflight, i)
                  /\ Ids(inflight[i].batch) \cap Ids(failedEvents') # {}
    ]_vars

\* C11 witness: dispose() was called while a delivery was in flight.
C11_Witness ==
  /\ lastOp.op = "dispose"
  /\ inflight # <<>>
  /\ reportTimer = 0 /\ timers = {}

\* C12: a delivery (retryAttempts = N >= 1 throughout) has made attempt - 1
\* transport calls when it awaits the next one and attempt calls when it
\* waits in a backoff, with 1 <= attempt <= N; a successful call ends it; a
\* failure ends it after at least one and at most N calls; and a step starts
\* at most one delivery.
C12_AtMostNTransportCalls ==
  [][ /\ \A i \in 1..Len(inflight') :
           LET d == inflight'[i]
           IN  /\ 1 <= d.attempt /\ d.attempt <= config'.retryAttempts
               /\ d.calls = IF d.phase = "upload" THEN d.attempt - 1 ELSE d.attempt
               /\ d.calls <= config'.retryAttempts
      /\ Len(inflight') <= Len(inflight) + 1
      /\ (lastOp'.op = "delivery" /\ lastOp'.result = "success") =>
            Len(inflight') = Len(inflight) - 1
      /\ (lastOp'.op = "delivery" /\ lastOp'.result = "failure") =>
            \E i \in 1..Len(inflight) :
              /\ inflight' = RemoveAt(inflight, i)
              /\ inflight[i].calls + 1 >= 1
              /\ inflight[i].calls + 1 <= config.retryAttempts
    ]_vars

\* C12 witness: a delivery is at its fourth and last attempt (N = 4) after
\* three failed transport calls.
C12_Witness ==
  /\ config.retryAttempts = 4
  /\ inflight # <<>>
  /\ inflight[1].attempt = 4 /\ inflight[1].calls = 3
  /\ inflight[1].phase = "upload"

\* the ceiling of the backoff wait (the autocomplete configuration has none)
BackoffWait(cfg, k) ==
  IF "maxRetryDelay" \in DOMAIN cfg
  THEN Min(cfg.retryDelay * Pow2(k - 1), cfg.maxRetryDelay)
  ELSE cfg.retryDelay * Pow2(k - 1)

\* C13 (as stated): a delivery of either pipeline that waits after failed
\* attempt k waits min(retryDelay x 2^(k-1), maxRetryDelay), and k < N.
C13_BackoffIsExponential ==
  \A i \in 1..Len(inflight) :
    inflight[i].phase = "backoff" =>
      /\ inflight[i].attempt < config.retryAttempts
      /\ inflight[i].delay = BackoffWait(config, inflight[i].attempt)

\* C14 (as stated): a delivery of either pipeline waits for, or makes,
\* another attempt only after a failure classified as retryable.
C14_NonRetryableEndsLoop ==
  \A i \in 1..Len(inflight) :
    (inflight[i].phase = "backoff" \/ inflight[i].attempt > 1) =>
      isRetryableError(inflight[i].lastError)

\* the number of events the producers have counted into the statistics
Counted(st) ==
  IF svc = "typing" THEN st.totalKeystrokes ELSE st.tabAccepts + st.escCancels

\* C15: when a delivery fails (retries exhausted or loop aborted), its batch
\* is put back at the end of the failed queue (whole when nothing is
\* discarded) and the statistics and pending suggestions are left as they
\* were; a flush rejected inside a producer call leaves the statistics with
\* the producer's own count and no reset.
C15_FailureRequeuesKeepsStatistics ==
  [][ lastOp'.result = "failure" =>
        IF lastOp'.op = "delivery"
        THEN \E i \in 1..Len(inflight) :
               LET batch == inflight[i].batch
               IN  /\ inflight' = RemoveAt(inflight, i)
                   /\ statistics' = statistics
                   /\ pendingSuggestions' = pendingSuggestions
                   /\ failedEvents' # <<>>
                   /\ failedEvents'[Len(failedEvents')] = batch[Len(batch)]
                   /\ lastOp'.discarded = 0 => failedEvents' = failedEvents \o batch
        ELSE /\ failedEvents' # <<>>
             /\ reportQueue' = <<>>
             /\ lastOp'.discarded = 0 =>
                  IdSeq(failedEvents') = IdSeq(failedEvents) \o QueueIdsAtEnqueue
             /\ IF lastOp'.enq
                THEN Counted(statistics') = Counted(statistics) + 1
                ELSE statistics' = statistics
    ]_vars

\* C15 witness: a delivery has failed, its batch stands in the failed queue
\* and the counters still hold what the producers counted.
C15_Witness ==
  /\ lastOp.op = "delivery" /\ lastOp.result = "failure"
  /\ lastOp.discarded = 0
  /\ Len(failedEvents) >= 2
  /\ Counted(statistics) >= 2

\* C16: a successful delivery of the typing service sets the three counters
\* to 0 and keeps lastTypingTime; resetStatistics() sets all four fields to
\* 0; and no other step takes lastTypingTime back to 0.
C16_ResetAfterReportKeepsLastTypingTime ==
  [][ svc = "typing" =>
        /\ (lastOp'.op = "delivery" /\ lastOp'.result = "success") =>
             statistics' = [ totalCharactersTyped |-> 0,
                             totalLinesTyped      |-> 0,
                             totalKeystrokes      |-> 0,
                             lastTypingTime       |-> statistics.lastTypingTime ]
        /\ lastOp'.op = "resetStatistics" =>
             statistics' = [ totalCharactersTyped |-> 0,
                             totalLinesTyped      |-> 0,
                             totalKeystrokes      |-> 0,
                             lastTypingTime       |-> 0 ]
        /\ (statistics.lastTypingTime # 0 /\ statistics'.lastTypingTime = 0) =>
             lastOp'.op = "resetStatistics"
    ]_vars

\* C16 witness: a report of the typing service has been delivered: the
\* counters are 0 and lastTypingTime still holds the time of the last event.
C16_Witness ==
  /\ svc = "typing"
  /\ lastOp.op = "delivery" /\ lastOp.result = "success"
  /\ statistics.totalKeystrokes = 0
  /\ statistics.totalCharactersTyped = 0
  /\ statistics.lastTypingTime = now

\* C17 (as stated): when the delivery of the batch drained by forceReport()
\* has failed, the promise forceReport() returned is rejected.
C17_ForceReportRejects ==
  hist.forceFailed => hist.force = "rejected"

\* C17 (amended): the promise returned by forceReport() is pending only
\* while the delivery of the batch it drained is in flight, and is fulfilled
\* once that delivery has ended, also when it failed (the batch is then in
\* the failed queue); it is never rejected.
C17_ForceReportFulfilsAfterDelivery ==
  [][ /\ hist'.force # "rejected"
      /\ hist'.force = "pending" =>
           \E i \in 1..Len(inflight') : inflight'[i].batch[1].id = hist'.forceKey
      /\ hist'.forceFailed => hist'.force = "fulfilled"
      /\ (hist.force = "pending" /\ hist'.force # "pending") =>
           /\ lastOp'.op = "delivery"
           /\ hist'.forceFailed <=> lastOp'.result = "failure"
           /\ (hist'.forceFailed /\ lastOp'.discarded = 0) =>
                hist'.forceKey \in Ids(failedEvents')
    ]_vars

\* C17 witness: the delivery of the batch drained by forceReport() has just
\* failed after a retry, and the promise is settled.
C17_Witness ==
  /\ hist.forceFailed
  /\ hist.force # "pending"
  /\ lastOp.op = "delivery" /\ lastOp.result = "failure"
  /\ hist.forceKey \in Ids(failedEvents)

\* C18: a producer call that triggers a flush returns with the delivery
\* suspended before its first transport call; a flush nobody awaits never
\* ends in a rejected promise, and when a producer's flush is rejected at
\* once its events are in the failed queue.
C18_ProducersNeverFail ==
  /\ ~hist.unhandled
  /\ (lastOp.enq /\ lastOp.result = "started") =>
       /\ inflight # <<>>
       /\ inflight[Len(inflight)].calls = 0
       /\ inflight[Len(inflight)].phase = "upload"
  /\ (lastOp.enq /\ lastOp.result = "failure") => failedEvents # <<>>

\* C18 witness: the flush a producer call triggered was rejected inside the
\* call (retryAttempts = 0) and its events stand in the failed queue.
C18_Witness ==
  /\ lastOp.enq /\ lastOp.result = "failure"
  /\ failedEvents # <<>>
  /\ ~hist.unhandled

\* C19: trackAccept or trackCancel of an id that is not pending (never
\* displayed, already accepted or cancelled, or aged out by the cleanup)
\* changes no counter, no rate, no queue and emits no event, so a second
\* resolve of the same id never counts twice.
C19_ResolveOfNonPendingIsNoOp ==
  [][ \A completionId \in CompletionIds :
        ( /\ completionId \notin PendingIds(pendingSuggestions)
          /\ trackAccept(completionId) \/ trackCancel(completionId) )
        => UNCHANGED << statistics, pendingSuggestions, reportQueue, failedEvents,
                        inflight, nextEvent, config, timers, reportTimer >> ]_vars

\* a resolve that found nothing pending after an earlier resolve was counted
C19_Witness ==
  /\ svc = "autocomplete"
  /\ lastOp.op \in {"trackAccept", "trackCancel"}
  /\ ~lastOp.enq
  /\ pendingSuggestions = <<>>
  /\ statistics.tabAccepts + statistics.escCancels >= 1
  /\ statistics.tabAccepts + statistics.escCancels = statistics.totalSuggestions

\* the two rates of st are the shares of its accepts and cancels
RatesConsistent(st) ==
  LET total == st.tabAccepts + st.escCancels
      a     == st.acceptanceRate
      c     == st.cancelRate
  IN  /\ a.den > 0 /\ c.den > 0
      /\ IF total > 0
         THEN /\ a.num * total = st.tabAccepts * a.den
              /\ c.num * total = st.escCancels * c.den
              /\ a.num * c.den + c.num * a.den = a.den * c.den
         ELSE a.num = 0 /\ c.num = 0

\* C20: wherever the autocomplete statistics are observed (the statistics
\* between two calls, and the copy of them that a report carries),
\* acceptanceRate = tabAccepts / (tabAccepts + escCancels) and
\* cancelRate = escCancels / (tabAccepts + escCancels); they sum to 1 when
\* the total is positive and are both 0 otherwise.
C20_RatesOverResolved ==
  svc = "autocomplete" =>
    /\ RatesConsistent(statistics)
    /\ \A i \in 1..Len(inflight) : RatesConsistent(inflight[i].payload)

\* C20, between two calls only: the rates of the statistics themselves
C20_RatesBetweenCalls ==
  svc = "autocomplete" => RatesConsistent(statistics)

\* three displayed, two accepted, one cancelled: 2/3 and 1/3
C20_Witness ==
  /\ svc = "autocomplete"
  /\ statistics.totalSuggestions = 3
  /\ statistics.tabAccepts = 2
  /\ statistics.escCancels = 1
  /\ statistics.acceptanceRate = Rate(2, 3)
  /\ statistics.cancelRate = Rate(1, 3)

\* a step that resets the statistics: the explicit reset, or the code after
\* a successful sendReport
ResetStep ==
  \/ lastOp'.op = "resetStatistics"
  \/ lastOp'.op = "delivery" /\ lastOp'.result = "success"

\* C21: between two resets every accepted trackManualTyping call adds its
\* charactersAdded to totalCharactersTyped, its linesAdded to totalLinesTyped
\* and 1 to totalKeystrokes, and no other step changes these counters; every
\* displayed suggestion adds exactly 1 to totalSuggestions and leaves
\* tabAccepts and escCancels unchanged, and no other step changes
\* totalSuggestions.  So each counter is the sum of its contributions.
C21_CountersAreSums ==
  [][ /\ \A inp \in TypingInputs :
           (validateInput(inp) /\ trackManualTyping(inp)) =>
             /\ statistics'.totalCharactersTyped =
                  statistics.totalCharactersTyped + inp.charactersAdded
             /\ statistics'.totalLinesTyped =
                  statistics.totalLinesTyped + inp.linesAdded
             /\ statistics'.totalKeystrokes = statistics.totalKeystrokes + 1
      /\ ( /\ svc = "typing"
           /\ ~(lastOp'.op = "trackManualTyping" /\ lastOp'.enq)
           /\ ~ResetStep ) =>
             /\ statistics'.totalCharactersTyped = statistics.totalCharactersTyped
             /\ statistics'.totalLinesTyped = statistics.totalLinesTyped
             /\ statistics'.totalKeystrokes = statistics.totalKeystrokes
      /\ \A completionId \in CompletionIds :
           trackSuggestionDisplayed(completionId) =>
             /\ statistics'.totalSuggestions = statistics.totalSuggestions + 1
             /\ statistics'.tabAccepts = statistics.tabAccepts
             /\ statistics'.escCancels = statistics.escCancels
      /\ ( /\ svc = "autocomplete"
           /\ lastOp'.op # "trackSuggestionDisplayed"
           /\ ~ResetStep ) =>
             statistics'.totalSuggestions = statistics.totalSuggestions
    ]_vars

\* two accepted calls (1 character; 2 characters and 1 line) since the reset
C21_Witness ==
  /\ svc = "typing"
  /\ lastOp.op = "trackManualTyping" /\ lastOp.enq
  /\ statistics.totalKeystrokes = 2
  /\ statistics.totalCharactersTyped = 3
  /\ statistics.totalLinesTyped = 1

\* the batches of the deliveries ds, one after the other
RECURSIVE Batches(_)
Batches(ds) == IF ds = <<>> THEN <<>> ELSE Head(ds).batch \o Batches(Tail(ds))

\* the pending suggestions older / not older than maxAgeMs before the step
Aged(maxAgeMs) ==
  SelectSeq(pendingSuggestions, LAMBDA e : now - e.displayTime > maxAgeMs)
NotAged(maxAgeMs) ==
  SelectSeq(pendingSuggestions, LAMBDA e : ~(now - e.displayTime > maxAgeMs))

\* the cancel events a cleanup step creates for the aged suggestions
CleanupCancels(maxAgeMs) ==
  [ k \in 1..Len(Aged(maxAgeMs)) |->
      [ id |-> nextEvent + k - 1, type |-> "cancel",
        completionId |-> Aged(maxAgeMs)[k].completionId,
        suggestionDisplayTime |-> now - Aged(maxAgeMs)[k].displayTime ] ]

\* what a cleanup step does to the counters and the pending set, and the
\* events it adds behind the queued ones (in the batches it drained, or in
\* the primary queue)
CleanupStep(maxAgeMs, events) ==
  /\ statistics'.escCancels = statistics.escCancels + Len(Aged(maxAgeMs))
  /\ statistics'.tabAccepts = statistics.tabAccepts
  /\ statistics'.totalSuggestions = statistics.totalSuggestions
  /\ pendingSuggestions' = NotAged(maxAgeMs)
  /\ Batches(SubSeq(inflight', Len(inflight) + 1, Len(inflight')))
       \o failedEvents' \o reportQueue'
     = failedEvents \o reportQueue \o events

\* C22 as stated: cleanupPendingSuggestions(maxAgeMs) turns every pending
\* suggestion older than maxAgeMs into a cancel (escCancels incremented, a
\* cancel event enqueued, the entry removed) and leaves every pending
\* suggestion of age at most maxAgeMs pending and uncounted.
C22_CleanupCancelsAged ==
  [][ lastOp'.op = "cleanupPendingSuggestions" =>
        CleanupStep(30000, CleanupCancels(30000)) ]_vars

\* C22, amended: the aged suggestions are counted as cancels and removed and
\* the others stay pending and uncounted; the cancel events are enqueued
\* while reporting is enabled, and none is enqueued while it is disabled.
C22_CleanupCancelsAgedEnqueuesIfEnabled ==
  [][ lastOp'.op = "cleanupPendingSuggestions" =>
        CleanupStep(30000, IF config.enabled THEN CleanupCancels(30000) ELSE <<>>)
    ]_vars

\* a cleanup that cancelled one aged suggestion and left a younger one
C22_Witness ==
  /\ svc = "autocomplete"
  /\ lastOp.op = "cleanupPendingSuggestions" /\ lastOp.enq
  /\ statistics.escCancels = 1
  /\ Len(pendingSuggestions) = 1
  /\ pendingSuggestions[1].displayTime = now

\* C23: a displayed suggestion stays pending until it is accepted, cancelled
\* or aged out by the cleanup: no other step of the pipeline (a flush, a
\* delivery that succeeds or fails) removes a pending suggestion.
C23_PendingUntilResolved ==
  [][ \A completionId \in PendingIds(pendingSuggestions) :
        completionId \notin PendingIds(pendingSuggestions') =>
          lastOp'.op \in {"trackAccept", "trackCancel", "cleanupPendingSuggestions"}
    ]_vars

\* the inputs C24 calls invalid
InvalidTypingInput(inp) ==
  \/ inp.filepath = ""
  \/ inp.charactersAdded < 0
  \/ inp.linesAdded < 0
  \/ inp.charactersAdded > 10000
  \/ inp.linesAdded > 1000
  \/ (inp.text # <<>> /\ Len(inp.text) # inp.charactersAdded)

\* C24: a trackManualTyping call with an empty filepath, a negative
\* charactersAdded or linesAdded, charactersAdded > 10000, linesAdded > 1000
\* or a non-empty text whose length differs from charactersAdded changes no
\* counter and no lastTypingTime, queues no event and starts no flush.
C24_InvalidInputRejected ==
  [][ \A inp \in TypingInputs :
        (InvalidTypingInput(inp) /\ trackManualTyping(inp)) =>
          /\ UNCHANGED << statistics, reportQueue, failedEvents, inflight,
                          nextEvent, lastCleanupTime, config, timers, reportTimer >>
          /\ lastOp'.result = "none" /\ ~lastOp'.enq
    ]_vars

\* a call rejected after an accepted one, whose event is still queued
C24_Witness ==
  /\ svc = "typing"
  /\ lastOp.op = "trackManualTyping" /\ ~lastOp.enq
  /\ statistics.totalKeystrokes = 1
  /\ Len(reportQueue) = 1

\* the step makes a transport call: a flush suspends in its first uploadLog,
\* or a delivery leaves its backoff for the next uploadLog
StartsUpload ==
  \/ Len(inflight') > Len(inflight)
  \/ \E i \in 1..Len(inflight) :
       /\ i <= Len(inflight')
       /\ inflight[i].batch = inflight'[i].batch
       /\ inflight[i].phase = "backoff" /\ inflight'[i].phase = "upload"

\* C25: while reportEnabled is false in the typing service, tracking typing
\* events, however many, makes no transport call (neither does the timer; an
\* explicit forceReport is left aside).
C25_NoUploadWhileReportDisabled ==
  [][ ( /\ svc = "typing"
        /\ ~config.reportEnabled
        /\ lastOp'.op # "forceReport" ) => ~StartsUpload ]_vars

\* s is the end of t
IsSuffix(s, t) ==
  /\ Len(s) <= Len(t)
  /\ s = SubSeq(t, Len(t) - Len(s) + 1, Len(t))

\* the steps of a failed report followed by a forced report that succeeds;
\* `kept` tells what the failed queue holds of the batch that failed
ForcedRetrySteps(kept(_, _)) ==
  /\ ( /\ lastOp'.op = "delivery" /\ lastOp'.result = "failure"
       /\ hist.force = "pending"
       /\ inflight[1].batch[1].id = hist.forceKey ) =>
       /\ failedEvents' # <<>>
       /\ kept(failedEvents', failedEvents \o inflight[1].batch)
       /\ UNCHANGED reportQueue
  /\ lastOp'.op \in {"configure", "configureReporting", "trackSuggestionDisplayed"} =>
       UNCHANGED << failedEvents, reportQueue >>
  /\ (lastOp'.op = "forceReport" /\ failedEvents # <<>> /\ reportQueue = <<>>) =>
       /\ Len(inflight') = Len(inflight) + 1
       /\ inflight'[Len(inflight')].batch = failedEvents
       /\ failedEvents' = <<>> /\ reportQueue' = <<>>
  /\ (lastOp'.op = "delivery" /\ lastOp'.result = "success") =>
       UNCHANGED << failedEvents, reportQueue >>

WholeBatch(fe, all) == fe = all

NewestOfBatch(fe, all) ==
  /\ IsSuffix(fe, all)
  /\ Len(all) <= 2 * config.batchSize => fe = all

Held == Ids(reportQueue) \cup Ids(failedEvents) \cup Ids(Batches(inflight))

\* the step ends a transport call with an error
FetchFailed ==
  \E i \in 1..Len(inflight), error \in TransportErrors : FetchFails(i, error)

\* an event leaves the pipeline only in a batch that was delivered, or
\* through one of the two capacity limits (which log the eviction)
LeavesOnlyDelivered ==
  \A id \in Held :
    id \notin Held' =>
      \/ /\ lastOp'.op = "delivery" /\ lastOp'.result = "success"
         /\ \E i \in 1..Len(inflight) :
              id \in Ids(inflight[i].batch) /\ inflight' = RemoveAt(inflight, i)
      \/ lastOp'.evicted
      \/ lastOp'.discarded > 0

Drained == reportQueue = <<>> /\ failedEvents = <<>> /\ inflight = <<>>

Delivering(k) == \E i \in 1..Len(inflight) : inflight[i].batch[1].id = k

\* the counters of the statistics are zero
CountersReset(st) ==
  IF svc = "typing"
  THEN /\ st.totalCharactersTyped = 0
       /\ st.totalLinesTyped = 0
       /\ st.totalKeystrokes = 0
  ELSE /\ st.tabAccepts = 0 /\ st.escCancels = 0 /\ st.totalSuggestions = 0

\* a delivery leaves the delivering state with one of two outcomes
TwoOutcomes ==
  \A i \in 1..Len(inflight) :
    inflight' = RemoveAt(inflight, i) =>
      \/ /\ lastOp'.result = "success"
         /\ CountersReset(statistics')
         /\ UNCHANGED << failedEvents, reportQueue >>
      \/ /\ lastOp'.result = "failure"
         /\ NewestOfBatch(failedEvents', failedEvents \o inflight[i].batch)
         /\ failedEvents' # <<>>
         /\ UNCHANGED << statistics, reportQueue >>

\* C28: every flush that started a delivery for a non-empty batch eventually
\* leaves the delivering state, when each transport call is answered and
\* each backoff elapses, and it leaves it in exactly one of two outcomes:
\* success (statistics reset) or failure (batch returned to the failed
\* queue).
C28_FlushCycleTerminates ==
  /\ [][TwoOutcomes]_vars
  /\ \A k \in 1..MaxEvents : Delivering(k) ~> ~Delivering(k)

\* a delivery ended exhausted after its last attempt failed
C28_Witness ==
  /\ lastOp.op = "delivery" /\ lastOp.result = "failure"
  /\ inflight = <<>>
  /\ failedEvents # <<>>
  /\ config.retryAttempts = 2

\* the step is a call of getOrCreateDeviceId
DeviceIdCall == lastOp'.op = "getOrCreateDeviceId"

\* the identifier on disk before the step, in the directory the call uses
\* when no operation fails (0: none)
StoredDeviceId ==
  IF device.global.file.present THEN device.global.file.text ELSE 0

\* the step returned an identifier randomUUID() made during it
ReturnsFresh ==
  /\ ~device'.returned.thrown
  /\ device'.returned.id > device.uuids

\* the step left every device-id.txt as it was
NothingPersisted ==
  /\ device'.global.file = device.global.file
  /\ device'.cwd.file = device.cwd.file
  /\ ~device'.wrote

\* the storage was available to every call so far and to this one
Available == device.steady /\ device'.steady

\* C29 (as stated) -- The device identifier is created once and reused: while
\* the storage is available, every call of getOrCreateDeviceId after the first
\* returns the identifier the first call stored and does not rewrite the
\* file, so that all reports carry the same identifier; when the storage
\* cannot be read or written, the call returns a fresh identifier and
\* persists nothing.
C29_DeviceIdCreatedOnce ==
  [][ DeviceIdCall =>
      /\ (device.calls = 0 /\ Available /\ StoredDeviceId = 0)
         => /\ ReturnsFresh
            /\ device'.global.file = FileOf(device'.returned.id)
      /\ (device.calls >= 1 /\ Available)
         => /\ device'.returned = [thrown |-> FALSE, id |-> device.first]
            /\ device'.global.file = FileOf(device.first)
            /\ NothingPersisted
      /\ device'.failed
         => /\ ReturnsFresh
            /\ NothingPersisted ]_vars

\* What holds of the code: the same, for the calls that found a directory.
\* A call that finds neither directory and can create neither throws the
\* error of the second mkdirSync instead of returning an identifier.
C29_DeviceIdUnlessNoDirectory ==
  [][ (DeviceIdCall /\ ~device'.returned.thrown) =>
      /\ (device.calls = 0 /\ Available /\ StoredDeviceId = 0)
         => /\ ReturnsFresh
            /\ device'.global.file = FileOf(device'.returned.id)
      /\ (device.calls = 0 /\ Available /\ StoredDeviceId # 0)
         => /\ device'.returned.id = StoredDeviceId
            /\ NothingPersisted
      /\ (device.calls >= 1 /\ Available)
         => /\ device'.returned = [thrown |-> FALSE, id |-> device.first]
            /\ device'.global.file = FileOf(device.first)
            /\ NothingPersisted
      /\ device'.failed
         => /\ ReturnsFresh
            /\ NothingPersisted ]_vars

\* the call that throws: neither directory exists, neither can be created
C29_Witness ==
  /\ lastOp.op = "getOrCreateDeviceId"
  /\ device.returned.thrown
  /\ ~device.global.exists /\ ~device.cwd.exists

\* a second call with the storage available returned the stored identifier
C29_ReusedWitness ==
  /\ lastOp.op = "getOrCreateDeviceId"
  /\ device.calls >= 2 /\ device.steady
  /\ device.first > 1 /\ device.returned.id = device.first
  /\ ~device.wrote

\* the counters a report carries and a reset zeroes
ReportedCounters(st) ==
  IF svc = "typing"
  THEN << st.totalCharactersTyped, st.totalLinesTyped, st.totalKeystrokes >>
  ELSE << st.tabAccepts, st.escCancels, st.totalSuggestions >>

\* C30 (as stated) -- No counted activity is zeroed unreported: whenever a
\* successful delivery resets the statistics, the counters the reset discards
\* are the counters of the snapshot that delivery sent, also when producers
\* or another flush ran while the delivery was in flight.
C30_ResetDiscardsWhatWasSent ==
  [][ \A i \in 1..Len(inflight) :
        ( /\ lastOp'.op = "delivery"
          /\ lastOp'.result = "success"
          /\ inflight' = RemoveAt(inflight, i) )
        => /\ CountersReset(statistics')
           /\ ReportedCounters(statistics) = ReportedCounters(inflight[i].payload)
    ]_vars

\* every event the pipeline holds, place after place
AllHeld == reportQueue \o failedEvents \o Batches(inflight)

\* no event stands at two places of the pipeline
HeldOnce == Cardinality(Ids(AllHeld)) = Len(AllHeld)

\* the failed events that are 24 hours old when the age cleanup of the step runs
AgedOut ==
  IF lastOp'.op = "trackManualTyping" /\ lastCleanupTime' # lastCleanupTime
  THEN { e.id : e \in { x \in Range(failedEvents) :
                          now - x.timestamp >= 24 * 60 * 60 * 1000 } }
  ELSE {}

\* the step delivered the batch of the i-th delivery
DeliveredBatch(i) ==
  /\ lastOp'.op = "delivery"
  /\ lastOp'.result = "success"
  /\ inflight' = RemoveAt(inflight, i)

\* what a step may do to the events: the events it adds are new ones, a
\* successful delivery takes away the events of its batch and no other, and
\* any other step takes away no more events than the eviction, the trim and
\* the age cleanup it ran account for
ConservingStep ==
  /\ (Held' \ Held) \subseteq nextEvent..(nextEvent' - 1)
  /\ \A i \in 1..Len(inflight) :
       DeliveredBatch(i) => Held \ Held' = Ids(inflight[i].batch)
  /\ ~(\E i \in 1..Len(inflight) : DeliveredBatch(i))
     => Cardinality((Held \ Held') \ AgedOut)
          <= (IF lastOp'.evicted THEN 1 ELSE 0) + lastOp'.discarded

\* C31 -- Event conservation: an event that was enqueued is in the primary
\* queue, in the failed queue or in one batch in flight, in one place only,
\* until a successful delivery of its batch, a capacity eviction (of the
\* primary queue or of the failed queue) or the age cleanup takes it away;
\* an event that left does not come back, so it is not passed to the
\* transport after its batch was delivered.
C31_EventConservation ==
  /\ []HeldOnce
  /\ [][ConservingStep]_vars

\* a delivery succeeded with one event in its batch while another one waits
C31_Witness ==
  /\ lastOp.op = "delivery" /\ lastOp.result = "success"
  /\ nextEvent = 3
  /\ Cardinality(Held) = 1

\* the suggestions displayed since the last reset that are neither resolved
\* nor pending
Unaccounted(st, pend) ==
  st.totalSuggestions - (st.tabAccepts + st.escCancels + Len(pend))

\* the map holds one entry for a completion id
OnePendingPerId ==
  Cardinality(PendingIds(pendingSuggestions)) = Len(pendingSuggestions)

\* the step zeroed the counters: resetStatistics, or a delivered report
Zeroed ==
  \/ lastOp'.op = "resetStatistics"
  \/ lastOp'.op = "delivery" /\ lastOp'.result = "success"

\* C32 -- In every state of the autocomplete statistics totalSuggestions is
\* at least tabAccepts + escCancels + the number of pending suggestions.  The
\* difference is 0 after a reset and grows only when an id is displayed that
\* is pending (so it stays 0 while the displayed ids are distinct): that
\* display replaces the entry of the id and still adds 1 to totalSuggestions.
\* The map holds at most one entry for a completion id.
C32_SuggestionsAccounted ==
  /\ [](svc = "autocomplete" =>
          /\ Unaccounted(statistics, pendingSuggestions) >= 0
          /\ OnePendingPerId)
  /\ [][ svc = "autocomplete" =>
         /\ \A id \in CompletionIds :
              trackSuggestionDisplayed(id) =>
                /\ statistics'.totalSuggestions = statistics.totalSuggestions + 1
                /\ PendingGet(pendingSuggestions', id).displayTime = now
                /\ PendingDelete(pendingSuggestions', id) =
                     PendingDelete(pendingSuggestions, id)
                /\ Len(pendingSuggestions') =
                     IF id \in PendingIds(pendingSuggestions)
                     THEN Len(pendingSuggestions)
                     ELSE Len(pendingSuggestions) + 1
                /\ Unaccounted(statistics', pendingSuggestions') =
                     IF id \in PendingIds(pendingSuggestions)
                     THEN Unaccounted(statistics, pendingSuggestions) + 1
                     ELSE Unaccounted(statistics, pendingSuggestions)
         /\ Zeroed => Unaccounted(statistics', pendingSuggestions') = 0
         /\ (lastOp'.op # "trackSuggestionDisplayed" /\ ~Zeroed)
            => Unaccounted(statistics', pendingSuggestions') =
                 Unaccounted(statistics, pendingSuggestions)
       ]_vars

\* an id was displayed again, later, while its entry was pending: one entry,
\* of the second display, and two suggestions counted
C32_Witness ==
  /\ svc = "autocomplete"
  /\ lastOp.op = "trackSuggestionDisplayed"
  /\ statistics.totalSuggestions = 2
  /\ Len(pendingSuggestions) = 1
  /\ pendingSuggestions[1].displayTime > InitialTime
  /\ Unaccounted(statistics, pendingSuggestions) = 1

\* the step ran a flush that found a batch to report
FlushedBatch ==
  /\ lastOp'.op # "delivery"
  /\ lastOp'.result \in {"started", "failure"}

\* the primary queue as that flush found it: with the event the producer of
\* the step appended, after the eviction it logged
OfferedQueue ==
  IF lastOp'.enq
  THEN (IF lastOp'.evicted THEN Tail(reportQueue) ELSE reportQueue)
         \o << failedEvents'[Len(failedEvents')] >>
  ELSE reportQueue

\* the batch that flush drained
DrainedBatch == failedEvents \o OfferedQueue

\* C33 -- When retryAttempts is 0 or less, a flush of a non-empty batch makes
\* no transport call: no delivery is started, the flush ends as a failure
\* in the same turn, both queues are drained and the whole batch is placed in
\* the failed queue, less the oldest events the trim to 2 * batchSize
\* discards, and the statistics are not reset.
C33_NoAttemptNoTransport ==
  [][ (config.retryAttempts <= 0 /\ FlushedBatch) =>
      /\ lastOp'.result = "failure"
      /\ inflight' = inflight
      /\ reportQueue' = <<>>
      /\ failedEvents' # <<>>
      /\ LET batch == DrainedBatch
             over  == Len(batch) - 2 * config.batchSize
         IN  /\ failedEvents' = SpliceFront(batch, IF over > 0 THEN over ELSE 0)
             /\ lastOp'.discarded = (IF over > 0 THEN over ELSE 0)
      /\ IF lastOp'.enq
         THEN ~CountersReset(statistics')
         ELSE statistics' = statistics
    ]_vars

\* the periodic flush found two events with retryAttempts 0: both are in the
\* failed queue, nothing is in flight and the counters stand
C33_Witness ==
  /\ config.retryAttempts = 0
  /\ lastOp.op = "periodicTimer" /\ lastOp.result = "failure"
  /\ Len(failedEvents) = 2
  /\ reportQueue = <<>> /\ inflight = <<>>
  /\ ~CountersReset(statistics)

\* the step is a call of trackManualTyping that passed the validation
AcceptedTyping == lastOp'.op = "trackManualTyping" /\ lastOp'.enq

\* the age cleanup runs in the step: CLEANUP_INTERVAL has passed since the last
CleanupDue == now - lastCleanupTime >= 5 * 60 * 1000

\* the failed events younger than 24 hours, in their order
YoungFailed ==
  SelectSeq(failedEvents, LAMBDA e : now - e.timestamp < 24 * 60 * 60 * 1000)

\* the primary queue after the producer appended its event: the queue of
\* the state before, less the event the producer evicted, and the new event
QueueWith(event) ==
  (IF lastOp'.evicted THEN Tail(reportQueue) ELSE reportQueue) \o << event >>

IsNewEvent(event) == event.id = nextEvent /\ event.timestamp = now

\* C34 -- The age cleanup of the typing service runs inside trackManualTyping,
\* and only when at least CLEANUP_INTERVAL (5 minutes) has passed since the
\* last cleanup, which it then dates now.  It removes from the failed queue
\* exactly the events that are 24 hours old or older and keeps the order of
\* the others.  It changes nothing else: the primary queue, the counters and
\* the batches in flight are what the producer alone makes of them, also for
\* events that are 24 hours old (a failed queue that the flush of the same
\* call drained is empty when the cleanup runs, and its batch is left whole).
C34_AgeCleanup ==
  [][ /\ ~AcceptedTyping => lastCleanupTime' = lastCleanupTime
      /\ AcceptedTyping =>
         /\ lastCleanupTime' = IF CleanupDue THEN now ELSE lastCleanupTime
         /\ statistics'.totalKeystrokes = statistics.totalKeystrokes + 1
         /\ SubSeq(inflight', 1, Len(inflight)) = inflight
         /\ CASE lastOp'.result = "none" ->
                   /\ failedEvents' = IF CleanupDue THEN YoungFailed ELSE failedEvents
                   /\ inflight' = inflight
                   /\ reportQueue' # <<>>
                   /\ IsNewEvent(reportQueue'[Len(reportQueue')])
                   /\ reportQueue' = QueueWith(reportQueue'[Len(reportQueue')])
              [] lastOp'.result = "started" ->
                   /\ failedEvents' = <<>>
                   /\ reportQueue' = <<>>
                   /\ Len(inflight') = Len(inflight) + 1
                   /\ LET batch == inflight'[Len(inflight')].batch
                      IN  /\ IsNewEvent(batch[Len(batch)])
                          /\ batch = failedEvents \o QueueWith(batch[Len(batch)])
              [] lastOp'.result = "failure" ->
                   /\ inflight' = inflight
                   /\ reportQueue' = <<>>
                   /\ failedEvents' # <<>>
                   /\ IsNewEvent(failedEvents'[Len(failedEvents')])
                   /\ IsSuffix(failedEvents',
                               failedEvents \o QueueWith(failedEvents'[Len(failedEvents')]))
                   /\ Len(failedEvents') =
                        Len(failedEvents) + Len(reportQueue) + 1
                          - (IF lastOp'.evicted THEN 1 ELSE 0) - lastOp'.discarded
    ]_vars

\* a cleanup removed the failed event that was a day old and kept the one
\* that was five minutes old
C34_Witness ==
  /\ lastOp.op = "trackManualTyping"
  /\ lastCleanupTime = now
  /\ now = InitialTime + 24 * 60 * 60 * 1000 + 5 * 60 * 1000
  /\ Len(failedEvents) = 1
  /\ failedEvents[1].id = 2
  /\ failedEvents[1].timestamp = now - 5 * 60 * 1000
  /\ Len(reportQueue) = 1

====
